---- MODULE Spec2Model ----
(***************************************************************************)
(* Gift rules: the cart reconciliation of app/services/applyGift.server.ts *)
(* (applyGiftLogic and its helpers) behind the gift-apply endpoint, the    *)
(* discount function of the checkout, and the settings page that saves     *)
(* the rule.                                                               *)
(*                                                                         *)
(* The platform cart and the rule metafields are the shared state; every   *)
(* remote call of an invocation is one step, together with the local code  *)
(* that follows it up to the next remote call or the return. A pricing     *)
(* pass of the discount function and a submission of the settings form are *)
(* one step each.                                                          *)
(***************************************************************************)
EXTENDS Integers, Sequences, FiniteSets, TLC

VARIABLES store, cart, nextId, inv, budget, pricing, settings, page, applying

vars == <<store, cart, nextId, inv, budget, pricing, settings, page, applying>>

(***************************************************************************)
(* Bounds                                                                  *)
(***************************************************************************)
MaxLines == 3
MaxQty == 2
MaxFailures == 2
MaxSubmissions == 3
MaxReloads == 3
MaxClicks == 1
MaxBanners == 2
MaxFetches == 2
MaxCalls == 2

(***************************************************************************)
(* Values                                                                  *)
(***************************************************************************)
GIFT_ATTRIBUTE_KEY == "_is_gift"
GIFT_ATTRIBUTE_VALUE == "true"

Null == <<>>
Some(v) == <<v>>

UnitPrice(v) == IF v = "V1" THEN 25 ELSE 50

GiftAttributes == <<[key |-> GIFT_ATTRIBUTE_KEY, value |-> GIFT_ATTRIBUTE_VALUE]>>

Range(s) == {s[i] : i \in 1..Len(s)}

(* CartLineNode without its id: the lines an initial cart is made of.      *)
(* The platform prices a line at unit price times quantity. Gift lines of  *)
(* V1, the variant of every configured rule, come in every quantity; of    *)
(* the other lines, whose quantity the code never reads, one is a gift     *)
(* line of V2, one carries the gift key with another value and one comes   *)
(* without a cost.                                                         *)
InitLines ==
    {[quantity |-> q, cost |-> Some(UnitPrice("V1") * q), merchandise |-> "V1", attributes |-> GiftAttributes] :
        q \in 1..MaxQty}
    \cup {[quantity |-> 1, cost |-> Some(UnitPrice("V2")), merchandise |-> "V2", attributes |-> GiftAttributes]}
    \cup {[quantity |-> 1, cost |-> Some(UnitPrice(v)), merchandise |-> v, attributes |-> <<>>] :
        v \in {"V1", "V2"}}
    \cup {[quantity |-> 1, cost |-> Some(UnitPrice("V1")), merchandise |-> "V1", attributes |-> <<[key |-> GIFT_ATTRIBUTE_KEY, value |-> "false"]>>]}
    \cup {[quantity |-> 1, cost |-> Null, merchandise |-> "V2", attributes |-> <<>>]}

WithId(l, i) ==
    [id |-> i, quantity |-> l.quantity, cost |-> l.cost,
     merchandise |-> l.merchandise, attributes |-> l.attributes]

InitCarts ==
    UNION {{[i \in 1..n |-> WithId(c[i], i)] : c \in [1..n -> InitLines]} : n \in 0..MaxLines}

(* A text that the code parses is the sequence of its characters.         *)
Text50 == <<"5", "0">>

(* The three gift_rules metafields of the app installation: never set, or *)
(* saved with a gift variant. A Null min_cart_subtotal is a metafield      *)
(* without a value, otherwise it holds the text that was saved.            *)
NeverConfigured == [gift_variant_id |-> "", min_cart_subtotal |-> Null, enable_rule |-> ""]

InitStores ==
    {NeverConfigured}
    \cup [gift_variant_id : {"V1"}, min_cart_subtotal : {Null, Some(Text50)}, enable_rule : {"true", "false"}]

(***************************************************************************)
(* Results                                                                 *)
(***************************************************************************)
Reason(text, args) == [text |-> text, args |-> args]
Plain(text) == Reason(text, <<>>)

(* ApplyGiftResult; removed is optional: Null when the field is not set.   *)
ApplyGiftResult(applied, removed, reason) ==
    [applied |-> applied, removed |-> removed, reason |-> reason]

Failure(reason) == [success |-> FALSE, reason |-> reason]

(***************************************************************************)
(* Pure helpers of applyGift.server.ts                                     *)
(***************************************************************************)
parseFloat(amount) == IF amount = Null THEN 0 ELSE amount[1]

(* A number of the code, an IEEE 754 double, is a sequence of whole        *)
(* numbers: <<>> for NaN, <<s>> for Infinity (s = 1) and -Infinity         *)
(* (s = -1), <<1, 0>> for zero (-0 is 0), and <<s, e, b1, ..., bn>> for    *)
(* s * m * 2^e, where b1 ... bn are the binary digits of the whole number  *)
(* m, the most significant first, at most 53 of them. m is odd, so that a  *)
(* number has one form: 5 is <<1, 0, 1, 0, 1>> and 12.5 is                 *)
(* <<1, -1, 1, 1, 0, 0, 1>>. The exponent has no bounds: the numbers here  *)
(* stay far from the largest and the smallest double.                      *)
NaN == Null
isNaN(num) == num = NaN

Infinity == <<1>>

(* The whole number that the binary digits b write, a few of them.         *)
Value[b \in Seq({0, 1})] ==
    IF b = <<>> THEN 0 ELSE 2 * Value[SubSeq(b, 1, Len(b) - 1)] + b[Len(b)]

(* The last w binary digits of v, and all the binary digits of n.          *)
Digits[v \in Nat, w \in Nat] == [i \in 1..w |-> (v \div 2^(w - i)) % 2]
Bits[n \in Nat] == Digits[n, Cardinality({i \in 0..30 : 2^i <= n})]

(* The double nearest to s * m * 2^exp, m given by its binary digits: the  *)
(* rounding of every arithmetic operation of the code, to 53 significant   *)
(* digits, a tie going to the even neighbour.                              *)
Rounded[s \in {-1, 1}, digits \in Seq({0, 1}), exp \in Int] ==
    LET First(b) == CHOOSE i \in 1..Len(b) : b[i] = 1 /\ \A j \in 1..(i - 1) : b[j] = 0
        Last(b) == CHOOSE i \in 1..Len(b) : b[i] = 1 /\ \A j \in (i + 1)..Len(b) : b[j] = 0
        Odd[b \in Seq({0, 1}), e \in Int] == <<s, e + Len(b) - Last(b)>> \o SubSeq(b, 1, Last(b))
        Raised(b, zero) == [i \in 1..Len(b) |-> IF i < zero THEN b[i] ELSE IF i = zero THEN 1 ELSE 0]
        Up(b) ==
            IF \A i \in 1..Len(b) : b[i] = 1 THEN [i \in 1..(Len(b) + 1) |-> IF i = 1 THEN 1 ELSE 0]
            ELSE Raised(b, CHOOSE i \in 1..Len(b) : b[i] = 0 /\ \A j \in (i + 1)..Len(b) : b[j] = 1)
        Nearest[kept \in Seq({0, 1}), rest \in Seq({0, 1})] ==
            IF rest[1] = 1 /\ (kept[53] = 1 \/ \E i \in 2..Len(rest) : rest[i] = 1)
            THEN Odd[Up(kept), exp + Len(rest)]
            ELSE Odd[kept, exp + Len(rest)]
        Half[b \in Seq({0, 1})] ==
            IF Len(b) <= 53 THEN Odd[b, exp]
            ELSE Nearest[SubSeq(b, 1, 53), SubSeq(b, 54, Len(b))]
    IN  IF \A i \in 1..Len(digits) : digits[i] = 0 THEN <<1, 0>>
        ELSE Half[SubSeq(digits, First(digits), Len(digits))]

Whole[n \in Int] == Rounded[IF n < 0 THEN -1 ELSE 1, Bits[IF n < 0 THEN 0 - n ELSE n], 0]

(* The double nearest to n / d for 0 < d < 2^23: the binary digits of the  *)
(* quotient by long division, eight at a time, until the division ends or  *)
(* more than 55 significant digits are there; a last 1 then stands for the *)
(* rest.                                                                   *)
Quotient[n \in Nat, d \in Nat] ==
    LET Places[r \in Nat, significant \in Nat] ==
            IF r = 0 THEN <<>>
            ELSE IF significant > 7 THEN <<1>>
            ELSE Digits[(r * 256) \div d, 8]
                 \o Places[(r * 256) % d, IF significant > 0 \/ r * 256 >= d THEN significant + 1 ELSE 0]
        Point[whole \in Seq({0, 1}), places \in Seq({0, 1})] ==
            Rounded[1, whole \o places, 0 - Len(places)]
    IN  Point[Bits[n \div d], Places[n % d, IF n >= d THEN 1 ELSE 0]]

(* a * k of the code for a whole k, 0 < k < 2^23: the digits of a times k, *)
(* eight at a time from the last ones on, and the result rounded.          *)
Times[a \in Seq(Int), k \in Nat] ==
    LET Product[b \in Seq({0, 1}), carry \in Nat] ==
            IF Len(b) <= 8 THEN Bits[Value[b] * k + carry]
            ELSE Product[SubSeq(b, 1, Len(b) - 8),
                         (Value[SubSeq(b, Len(b) - 7, Len(b))] * k + carry) \div 256]
                 \o Digits[(Value[SubSeq(b, Len(b) - 7, Len(b))] * k + carry) % 256, 8]
    IN  IF Len(a) < 2 THEN a ELSE Rounded[a[1], Product[SubSeq(a, 3, Len(a)), 0], a[2]]

(* -1, 0 or 1 as a is below, equal to or above b; neither is NaN. Two      *)
(* numbers of one sign whose first digits have the same weight differ as   *)
(* their first different digit does.                                       *)
Order[a \in Seq(Int), b \in Seq(Int)] ==
    LET Sign(x) == IF Len(x) = 2 THEN 0 ELSE x[1]
        Top(x) == Len(x) + x[2]
        Digit(x, i) == IF i <= Len(x) THEN x[i] ELSE 0
        Differ(i) == Digit(a, i) # Digit(b, i) /\ \A j \in 3..(i - 1) : Digit(a, j) = Digit(b, j)
        At(places) ==
            IF \A i \in places : Digit(a, i) = Digit(b, i) THEN 0
            ELSE IF Digit(a, CHOOSE i \in places : Differ(i)) = 1 THEN 1 ELSE -1
        Magnitude ==
            IF Len(a) = 1 \/ Len(b) = 1 THEN Len(b) - Len(a)
            ELSE IF Top(a) > Top(b) THEN 1
            ELSE IF Top(a) < Top(b) THEN -1
            ELSE At(3..(IF Len(a) > Len(b) THEN Len(a) ELSE Len(b)))
    IN  IF Sign(a) > Sign(b) THEN 1
        ELSE IF Sign(a) < Sign(b) THEN -1
        ELSE IF Sign(a) = 0 THEN 0
        ELSE IF Magnitude > 0 THEN Sign(a)
        ELSE IF Magnitude < 0 THEN 0 - Sign(a)
        ELSE 0

RECURSIVE Pow10(_)
Pow10(k) == IF k = 0 THEN 1 ELSE 10 * Pow10(k - 1)

(* a < b and a >= b of the code: both are false when one side is NaN.      *)
lessThan(a, b) == ~isNaN(a) /\ ~isNaN(b) /\ Order[a, b] < 0
atLeast(a, b) == ~isNaN(a) /\ ~isNaN(b) /\ Order[a, b] >= 0

(* parseFloat of a text, the sequence of its characters: leading white     *)
(* space is skipped, a sign is read, then Infinity or the longest decimal  *)
(* literal (digits, a point and digits, an exponent with at least one      *)
(* digit); what follows is ignored. The result is NaN without a digit,     *)
(* otherwise the double nearest to the literal. The literals here are      *)
(* below 2^31 without their point and have at most six digits after it.    *)
DigitOf(c) ==
    CASE c = "0" -> 0 [] c = "1" -> 1 [] c = "2" -> 2 [] c = "3" -> 3 [] c = "4" -> 4
      [] c = "5" -> 5 [] c = "6" -> 6 [] c = "7" -> 7 [] c = "8" -> 8 [] c = "9" -> 9
      [] OTHER -> -1

(* StrWhiteSpaceChar, the white space and the line terminators of the      *)
(* language: tab, line feed, vertical tab, form feed, carriage return,     *)
(* space, no-break space, the ogham space mark, the spaces U+2000 to       *)
(* U+200A, the line and the paragraph separator, the narrow no-break       *)
(* space, the medium mathematical space, the ideographic space and the     *)
(* byte order mark. A character outside ASCII is written by the name of    *)
(* its code point, "U+00A0" for the no-break space: every other name, as   *)
(* "U+00E9", "U+0085", "U+180E", "U+200B" or "U+2060", is a character      *)
(* that is no white space. The position after the white space that starts  *)
(* at position i.                                                          *)
RECURSIVE SkipBlanks(_, _)
SkipBlanks(text, i) ==
    IF i <= Len(text)
       /\ text[i] \in {"\t", "\n", "", "\f", "\r", " ", "U+00A0", "U+1680",
                       "U+2000", "U+2001", "U+2002", "U+2003", "U+2004", "U+2005",
                       "U+2006", "U+2007", "U+2008", "U+2009", "U+200A", "U+2028",
                       "U+2029", "U+202F", "U+205F", "U+3000", "U+FEFF"}
    THEN SkipBlanks(text, i + 1) ELSE i

(* The digits read from position i on: how many, and their decimal value.  *)
RECURSIVE ReadDigits(_, _, _)
ReadDigits(text, i, read) ==
    IF i <= Len(text) /\ DigitOf(text[i]) >= 0
    THEN ReadDigits(text, i + 1, [count |-> read.count + 1, value |-> 10 * read.value + DigitOf(text[i])])
    ELSE read

InfinityText == <<"I", "n", "f", "i", "n", "i", "t", "y">>

parseFloatText(text) ==
    LET none == [count |-> 0, value |-> 0]
        at(i, chars) == i <= Len(text) /\ text[i] \in chars
        Signed[num \in Seq(Int), negative \in BOOLEAN] ==
            IF ~negative \/ isNaN(num) \/ Len(num) = 2 THEN num ELSE [num EXCEPT ![1] = 0 - num[1]]
        Magnitude(digits, scale) ==
            IF scale >= 0 THEN Quotient[digits * Pow10(scale), 1]
            ELSE Quotient[digits, Pow10(0 - scale)]
        Exponent(exp, negative) == IF negative THEN 0 - exp.value ELSE exp.value
        ExponentAt(e) ==
            IF ~at(e, {"e", "E"}) THEN 0
            ELSE IF at(e + 1, {"-", "+"})
            THEN Exponent(ReadDigits(text, e + 2, none), text[e + 1] = "-")
            ELSE Exponent(ReadDigits(text, e + 1, none), FALSE)
        Decimal(int, frac, e) ==
            IF int.count + frac.count = 0 THEN NaN
            ELSE Magnitude(int.value * Pow10(frac.count) + frac.value, ExponentAt(e) - frac.count)
        FractionAt(int, frac, from) == Decimal(int, frac, from + frac.count)
        PointAt(int, dot) ==
            IF at(dot, {"."}) THEN FractionAt(int, ReadDigits(text, dot + 1, none), dot + 1)
            ELSE Decimal(int, none, dot)
        IntegerAt(int, from) == PointAt(int, from + int.count)
        Unsigned(from, last) ==
            IF last <= Len(text) /\ SubSeq(text, from, last) = InfinityText THEN Infinity
            ELSE IntegerAt(ReadDigits(text, from, none), from)
        UnsignedAt(from) == Unsigned(from, from + Len(InfinityText) - 1)
        SignAt(start) ==
            Signed[UnsignedAt(IF at(start, {"-", "+"}) THEN start + 1 ELSE start), at(start, {"-"})]
    IN  SignAt(SkipBlanks(text, 1))

(* isGiftItem looking at the key only.                                     *)
isGiftItem_KeyOnly(node) ==
    \E i \in 1..Len(node.attributes) : node.attributes[i].key = GIFT_ATTRIBUTE_KEY

isGiftItem(node) ==
    \E i \in 1..Len(node.attributes) :
        /\ node.attributes[i].key = GIFT_ATTRIBUTE_KEY
        /\ node.attributes[i].value = GIFT_ATTRIBUTE_VALUE

RECURSIVE calculateSubtotalWithoutGifts(_)
calculateSubtotalWithoutGifts(cartLines) ==
    IF cartLines = <<>> THEN 0
    ELSE LET node == cartLines[Len(cartLines)]
             rest == calculateSubtotalWithoutGifts(SubSeq(cartLines, 1, Len(cartLines) - 1))
         IN  IF isGiftItem(node) THEN rest ELSE rest + parseFloat(node.cost)

(* findGiftLineIds stopping at the first gift line, as findGiftLine does.  *)
findGiftLineIds_FirstOnly(cartLines) ==
    LET gifts == SelectSeq(cartLines, isGiftItem)
    IN  IF gifts = <<>> THEN <<>> ELSE <<gifts[1].id>>

(* findGiftLineIds without the filter: the ids of all lines.               *)
findGiftLineIds_AllLines(cartLines) == [i \in 1..Len(cartLines) |-> cartLines[i].id]

findGiftLineIds(cartLines) ==
    LET gifts == SelectSeq(cartLines, isGiftItem)
    IN  [i \in 1..Len(gifts) |-> gifts[i].id]

(* The first gift line of the configured variant, or Null.                 *)
findCorrectGiftLine(cartLines, giftVariantId) ==
    LET match == SelectSeq(cartLines, LAMBDA node : isGiftItem(node) /\ node.merchandise = giftVariantId)
    IN  IF match = <<>> THEN Null ELSE Some(match[1])

(* response: [threw, errors, userErrors]; errors and userErrors are the    *)
(* lists of messages, "" standing for an error without a message.          *)
handleGraphQLErrors(response, operation) ==
    IF response.errors # <<>>
    THEN Failure(Plain(IF response.errors[1] # "" THEN response.errors[1]
                       ELSE "Failed to " \o operation))
    ELSE IF response.userErrors # <<>>
    THEN Failure(Plain(IF response.userErrors[1] # "" THEN response.userErrors[1]
                       ELSE "Failed to " \o operation))
    ELSE [success |-> TRUE, reason |-> Plain("")]

(* response: [threw, ok, errors, data]; data is Null or the metafields.    *)
getGiftRules(response) ==
    IF response.threw THEN Null
    ELSE IF ~response.ok THEN Null
    ELSE IF response.data = Null THEN Null
    ELSE LET appInstallation == response.data[1]
             giftVariantId == appInstallation.gift_variant_id
             minCartSubtotalStr == IF appInstallation.min_cart_subtotal \in {Null, Some(<<>>)}
                                   THEN <<"0">> ELSE appInstallation.min_cart_subtotal[1]
             parsed == parseFloatText(minCartSubtotalStr)
             enableRule == appInstallation.enable_rule = "true"
         IN  IF giftVariantId = "" THEN Null
             ELSE Some([giftVariantId |-> giftVariantId,
                        minCartSubtotal |-> IF isNaN(parsed) \/ parsed = Whole[0] THEN Whole[0] ELSE parsed,
                        enableRule |-> enableRule])

(* response: [threw, errors, data]; data is Null or the cart lines.        *)
getCartData(response) ==
    IF response.errors # <<>>
    THEN Failure(Plain(IF response.errors[1] # "" THEN response.errors[1] ELSE "Failed to fetch cart"))
    ELSE IF response.data = Null THEN Failure(Plain("Cart not found"))
    ELSE [success |-> TRUE, reason |-> Plain("")]

(***************************************************************************)
(* The platform's cart mutations                                           *)
(***************************************************************************)
cartLinesRemove(c, lineIds) == SelectSeq(c, LAMBDA l : l.id \notin Range(lineIds))

cartLinesUpdate(c, lineId, quantity) ==
    [i \in 1..Len(c) |->
        IF c[i].id = lineId
        THEN [c[i] EXCEPT !.quantity = quantity,
                          !.cost = IF c[i].cost = Null THEN Null
                                   ELSE Some(UnitPrice(c[i].merchandise) * quantity)]
        ELSE c[i]]

(* The platform adds to a line of the same merchandise and attributes when *)
(* the cart has one, and appends a line under a new id otherwise.          *)
cartLinesAdd(c, id, line) ==
    LET same(l) == l.merchandise = line.merchandiseId /\ l.attributes = line.attributes
    IN  IF \E i \in 1..Len(c) : same(c[i])
        THEN LET first == CHOOSE i \in 1..Len(c) : same(c[i]) /\ \A j \in 1..(i - 1) : ~same(c[j])
             IN  cartLinesUpdate(c, c[first].id, c[first].quantity + line.quantity)
        ELSE Append(c, [id |-> id, quantity |-> line.quantity,
                        cost |-> Some(UnitPrice(line.merchandiseId) * line.quantity),
                        merchandise |-> line.merchandiseId, attributes |-> line.attributes])

(***************************************************************************)
(* Responses of the remote services                                        *)
(***************************************************************************)
NetworkError == "fetch failed"

MutationOk == [threw |-> FALSE, errors |-> <<>>, userErrors |-> <<>>]

MutationFailures ==
    {[threw |-> TRUE, errors |-> <<>>, userErrors |-> <<>>],
     [threw |-> FALSE, errors |-> <<"Throttled">>, userErrors |-> <<>>],
     [threw |-> FALSE, errors |-> <<"">>, userErrors |-> <<>>],
     [threw |-> FALSE, errors |-> <<>>, userErrors |-> <<"Invalid line">>],
     [threw |-> FALSE, errors |-> <<>>, userErrors |-> <<"">>],
     [threw |-> FALSE, errors |-> <<"Throttled">>, userErrors |-> <<"Invalid line">>]}

AdminOk(metafields) == [threw |-> FALSE, ok |-> TRUE, errors |-> <<>>, data |-> Some(metafields)]

(* The message the platform reported with a response, Null when none.      *)
ReportedError(response) ==
    IF response.errors # <<>> THEN Some(response.errors[1])
    ELSE IF "userErrors" \in DOMAIN response /\ response.userErrors # <<>> THEN Some(response.userErrors[1])
    ELSE Null

(* One remote call of an invocation, as the log keeps it.                  *)
Call(op, lineIds, lines, success, threw, error, reason) ==
    [op |-> op, lineIds |-> lineIds, lines |-> lines, success |-> success,
     threw |-> threw, error |-> error, reason |-> reason]

Mutations == {"cartLinesRemove", "cartLinesUpdate", "cartLinesAdd"}

(***************************************************************************)
(* The endpoint and the invocation state                                   *)
(***************************************************************************)
IdleInv ==
    [pc |-> "idle", ran |-> FALSE, rules |-> Null, cartData |-> <<>>, eligible |-> FALSE,
     giftLine |-> Null, lineIds |-> <<>>, calls |-> <<>>, result |-> Null,
     request |-> Null, response |-> Null, cartBefore |-> <<>>,
     prev |-> [ran |-> FALSE, clean |-> FALSE, partial |-> FALSE]]

(* What the next request remembers of the invocation before it.            *)
Summary(rec) ==
    IF rec.ran
    THEN [ran |-> TRUE, clean |-> \A i \in 1..Len(rec.calls) : rec.calls[i].success,
          partial |-> /\ \E i \in 1..Len(rec.calls) :
                            rec.calls[i].op \in Mutations /\ rec.calls[i].success
                      /\ \E i \in 1..Len(rec.calls) : ~rec.calls[i].success]
    ELSE rec.prev

HttpResponse(status, body) == [status |-> status, body |-> body]

(* StatusOf looking at applied only.                                      *)
StatusOf_AppliedOnly(result) == IF result.applied THEN 200 ELSE 400

(* action, lines 93-98: the status of a reconciliation result.             *)
StatusOf(result) == IF result.applied \/ result.removed = Some(TRUE) THEN 200 ELSE 400

Return(rec, result) ==
    [rec EXCEPT !.pc = "idle", !.result = Some(result),
                !.response = Some(HttpResponse(StatusOf(result), result))]

(* action, lines 99-107: an exception reaches the catch of the handler.    *)
Throw(rec, message) ==
    [rec EXCEPT !.pc = "idle",
                !.response = Some(HttpResponse(500, ApplyGiftResult(FALSE, Null, Plain(message))))]

Logged(rec, call) == [rec EXCEPT !.calls = Append(@, call)]

(* The message of zod for a field that is undefined: the source does not  *)
(* state which zod is installed, zod 3 says "Required" and zod 4 says what *)
(* it expected and what it received.                                       *)
ZodInvalidType == {"Required", "Invalid input: expected string, received undefined"}

(* applyGiftSchema without min(1): the empty cart id passes.               *)
applyGiftSchema_AcceptsEmpty(body, invalidType) ==
    IF body.cartId = Null THEN Some(invalidType) ELSE Null

(* applyGiftSchema on the parsed body: Null when valid, else the message;   *)
(* invalidType is the message of the zod installed.                        *)
applyGiftSchema(body, invalidType) ==
    IF body.cartId = Null THEN Some(invalidType)
    ELSE IF body.cartId[1] = "" THEN Some("Cart ID is required")
    ELSE Null

(* A request body: its text, the value request.json() gives for it, Null   *)
(* for a text that is not JSON, and the message of the SyntaxError it       *)
(* throws then.                                                            *)
CartIdBody(cartId) ==
    [text |-> "{\"cartId\":\"" \o cartId \o "\"}", json |-> Some([cartId |-> Some(cartId)]),
     syntaxError |-> Null]

GoodRequest ==
    [shopDomain |-> Some("gift-shop.myshopify.com"), body |-> CartIdBody("c1"),
     storefront |-> TRUE, admin |-> TRUE]

(* Spending a failure: budget -1 is unlimited, 0 allows none.              *)
Spend(failed) ==
    /\ failed => budget # 0
    /\ budget' = IF failed /\ budget > 0 THEN budget - 1 ELSE budget

(* The message of the SyntaxError that request.json() throws, JSON.parse   *)
(* of V8 as node 20 ships it (later versions add the line and the column   *)
(* to a position), for a text that is not JSON and is empty or starts,     *)
(* after white space, with a letter. A text starting as null, true or      *)
(* false is read as far as it follows the word: the first character that   *)
(* does not is unexpected, and so is what follows the whole word and white *)
(* space. An unexpected digit or minus sign is reported as a number and a  *)
(* quote as a string, with the position counted from 0. Any other token is *)
(* reported with the text: in full when it has fewer than 21 characters,   *)
(* otherwise with the ten characters before and after the token.           *)
JsonSyntaxError(text) ==
    LET Char(k) == SubSeq(text, k, k)
        Context(k) ==
            IF Len(text) < 21 THEN "\"" \o text \o "\""
            ELSE IF k <= 10 THEN "\"" \o SubSeq(text, 1, k + 9) \o "\"..."
            ELSE IF k <= Len(text) - 10 THEN "...\"" \o SubSeq(text, k - 10, k + 9) \o "\"..."
            ELSE "...\"" \o SubSeq(text, k - 10, Len(text)) \o "\""
        Unexpected(k, afterJson) ==
            IF k > Len(text) THEN "Unexpected end of JSON input"
            ELSE IF afterJson
            THEN "Unexpected non-whitespace character after JSON at position " \o ToString(k - 1)
            ELSE IF Char(k) \in {"0", "1", "2", "3", "4", "5", "6", "7", "8", "9", "-"}
            THEN "Unexpected number in JSON at position " \o ToString(k - 1)
            ELSE IF Char(k) = "\"" THEN "Unexpected string in JSON at position " \o ToString(k - 1)
            ELSE IF text \in {"undefined", "NaN", "Infinity", "[object Object]"}
            THEN "\"" \o text \o "\" is not valid JSON"
            ELSE "Unexpected token '" \o Char(k) \o "', " \o Context(k) \o " is not valid JSON"
        RECURSIVE SkipWhitespace(_)
        SkipWhitespace(k) ==
            IF k <= Len(text) /\ Char(k) \in {" ", "\t", "\n", "\r"} THEN SkipWhitespace(k + 1) ELSE k
        RECURSIVE ScanLiteral(_, _, _)
        ScanLiteral(word, from, i) ==
            IF i > Len(word) THEN Unexpected(SkipWhitespace(from + i - 1), TRUE)
            ELSE IF from + i - 1 <= Len(text) /\ Char(from + i - 1) = SubSeq(word, i, i)
            THEN ScanLiteral(word, from, i + 1)
            ELSE Unexpected(from + i - 1, FALSE)
        ParseJsonValue(from) ==
            IF from > Len(text) THEN Unexpected(from, FALSE)
            ELSE IF Char(from) = "n" THEN ScanLiteral("null", from, 2)
            ELSE IF Char(from) = "t" THEN ScanLiteral("true", from, 2)
            ELSE IF Char(from) = "f" THEN ScanLiteral("false", from, 2)
            ELSE Unexpected(from, FALSE)
    IN  ParseJsonValue(SkipWhitespace(1))

(* The requests the endpoint receives: the good one, and every request     *)
(* that differs from it in one input: without a shop, or with a body that  *)
(* is empty, is not JSON, is the empty object, or holds an empty cartId.   *)
Requests ==
    {GoodRequest, [GoodRequest EXCEPT !.shopDomain = Null]}
    \cup {[GoodRequest EXCEPT !.body = [text |-> text, json |-> Null,
                                        syntaxError |-> Some(JsonSyntaxError(text))]] :
            text \in {"", "not json"}}
    \cup {[GoodRequest EXCEPT !.body = b] :
            b \in {[text |-> "{}", json |-> Some([cartId |-> Null]), syntaxError |-> Null],
                   CartIdBody("")}}
    \cup {[GoodRequest EXCEPT !.storefront = a] : a \in BOOLEAN}
    \cup {[GoodRequest EXCEPT !.admin = a] : a \in BOOLEAN}

(* action, lines 25-93: up to the call of applyGiftLogic. request.json()   *)
(* of line 43 throws the SyntaxError of a body that is not JSON.           *)
actionEntry(rec, shopDomain, body, storefront, admin, current, invalidType) ==
    LET fresh == [IdleInv EXCEPT !.prev = Summary(rec),
                                 !.request = Some([shopDomain |-> shopDomain, body |-> body,
                                                   storefront |-> storefront, admin |-> admin])]
        reject(status, text) ==
            [fresh EXCEPT !.response = Some(HttpResponse(status, ApplyGiftResult(FALSE, Null, Plain(text))))]
    IN  IF shopDomain = Null THEN reject(400, "Shop domain is required")
        ELSE IF body.json = Null THEN reject(500, body.syntaxError[1])
        ELSE IF applyGiftSchema(body.json[1], invalidType) # Null
        THEN reject(400, applyGiftSchema(body.json[1], invalidType)[1])
        ELSE IF ~storefront THEN reject(503, "Storefront API not available")
        ELSE IF ~admin THEN reject(503, "Admin API not available")
        ELSE [fresh EXCEPT !.pc = "getGiftRules", !.ran = TRUE, !.cartBefore = current]

action(p) ==
    /\ inv[p].pc = "idle"
    /\ \E request \in Requests :
        \E next \in {actionEntry(inv[p], request.shopDomain, request.body, request.storefront,
                                 request.admin, cart, invalidType) : invalidType \in ZodInvalidType} :
            /\ Spend(next.pc = "idle")
            /\ inv' = [inv EXCEPT ![p] = next]
    /\ UNCHANGED <<store, cart, nextId, pricing, settings, page, applying>>

(***************************************************************************)
(* applyGiftLogic, one step per remote call                                *)
(***************************************************************************)
BelowMinimum(subtotalAmount, minSubtotal) ==
    Reason("Cart subtotal (%1) is less than minimum required (%2)", <<subtotalAmount, minSubtotal>>)

BelowMinimumRemoved(subtotalAmount, minSubtotal) ==
    Reason("Cart subtotal (%1) is less than minimum required (%2). Gift items have been removed.",
           <<subtotalAmount, minSubtotal>>)

(* afterGetGiftRules going on with a disabled rule.                        *)
afterGetGiftRules_IgnoresDisabled(rec, response) ==
    LET giftRules == getGiftRules(response)
        failed == response.threw \/ ~response.ok \/ response.errors # <<>>
        logged == Logged(rec, Call("getGiftRules", <<>>, <<>>, ~failed, response.threw,
                                   ReportedError(response), Plain("Gift rules not configured")))
    IN  IF giftRules = Null THEN Return(logged, ApplyGiftResult(FALSE, Null, Plain("Gift rules not configured")))
        ELSE [logged EXCEPT !.pc = "getCartData", !.rules = giftRules]

(* lines 348-368: the rule is read from the Admin API.                     *)
afterGetGiftRules(rec, response) ==
    LET giftRules == getGiftRules(response)
        failed == response.threw \/ ~response.ok \/ response.errors # <<>>
        logged == Logged(rec, Call("getGiftRules", <<>>, <<>>, ~failed, response.threw,
                                   ReportedError(response), Plain("Gift rules not configured")))
    IN  IF giftRules = Null THEN Return(logged, ApplyGiftResult(FALSE, Null, Plain("Gift rules not configured")))
        ELSE IF ~giftRules[1].enableRule
        THEN Return(logged, ApplyGiftResult(FALSE, Null, Plain("Gift rule is disabled")))
        ELSE [logged EXCEPT !.pc = "getCartData", !.rules = giftRules]

(* afterRemoval with the quantity test off by one: a gift line of         *)
(* quantity 2 counts as correct.                                           *)
afterRemoval_OffByOne(rec) ==
    IF rec.giftLine # Null
    THEN IF rec.giftLine[1].quantity > 2
         THEN [rec EXCEPT !.pc = "updateGiftQuantity"]
         ELSE Return(rec, ApplyGiftResult(FALSE, Null, Plain("Gift already added to cart with correct quantity")))
    ELSE [rec EXCEPT !.pc = "addGiftItem"]

(* afterRemoval updating the quantity whatever it is.                      *)
afterRemoval_AlwaysUpdates(rec) ==
    IF rec.giftLine # Null
    THEN IF rec.giftLine[1].quantity >= 1
         THEN [rec EXCEPT !.pc = "updateGiftQuantity"]
         ELSE Return(rec, ApplyGiftResult(FALSE, Null, Plain("Gift already added to cart with correct quantity")))
    ELSE [rec EXCEPT !.pc = "addGiftItem"]

(* lines 453-483: after the extraneous gift lines are gone.                *)
afterRemoval(rec) ==
    IF rec.giftLine # Null
    THEN IF rec.giftLine[1].quantity > 1
         THEN [rec EXCEPT !.pc = "updateGiftQuantity"]
         ELSE Return(rec, ApplyGiftResult(FALSE, Null, Plain("Gift already added to cart with correct quantity")))
    ELSE [rec EXCEPT !.pc = "addGiftItem"]

(* belowMinimum with the boundary on the wrong side.                       *)
belowMinimum_Inclusive(subtotalAmount, minSubtotal) == atLeast(minSubtotal, Whole[subtotalAmount])

(* line 394: the cart does not reach the minimum.                          *)
belowMinimum(subtotalAmount, minSubtotal) == lessThan(Whole[subtotalAmount], minSubtotal)

(* giftItemsToRemove keeping the first gift line of the cart, whatever its *)
(* variant.                                                                *)
giftItemsToRemove_KeepsFirst(allGiftLineIds, giftLine) ==
    IF allGiftLineIds = <<>> THEN <<>> ELSE Tail(allGiftLineIds)

(* line 440: every gift line but the correct one.                          *)
giftItemsToRemove(allGiftLineIds, giftLine) ==
    SelectSeq(allGiftLineIds, LAMBDA id : giftLine = Null \/ id # giftLine[1].id)

(* lines 376-451: the cart is read and the decision taken.                 *)
afterGetCartData(rec, response) ==
    LET cartResult == getCartData(response)
        logged == Logged(rec, Call("getCart", <<>>, <<>>, cartResult.success, response.threw,
                                   ReportedError(response), cartResult.reason))
    IN  IF response.threw
        THEN Throw(Logged(rec, Call("getCart", <<>>, <<>>, FALSE, TRUE, Null, Plain(NetworkError))), NetworkError)
        ELSE IF ~cartResult.success THEN Return(logged, ApplyGiftResult(FALSE, Null, cartResult.reason))
        ELSE LET cartData == response.data[1]
                 subtotalAmount == calculateSubtotalWithoutGifts(cartData)
                 minSubtotal == rec.rules[1].minCartSubtotal
                 read == [logged EXCEPT !.cartData = cartData]
             IN  IF belowMinimum(subtotalAmount, minSubtotal)
                 THEN LET giftLineIds == findGiftLineIds(cartData)
                      IN  IF Len(giftLineIds) > 0
                          THEN [read EXCEPT !.pc = "removeGiftItems", !.eligible = FALSE, !.lineIds = giftLineIds]
                          ELSE Return(read, ApplyGiftResult(FALSE, Null, BelowMinimum(subtotalAmount, minSubtotal)))
                 ELSE LET allGiftLineIds == findGiftLineIds(cartData)
                          giftLine == findCorrectGiftLine(cartData, rec.rules[1].giftVariantId)
                          toRemove == giftItemsToRemove(allGiftLineIds, giftLine)
                          found == [read EXCEPT !.eligible = TRUE, !.giftLine = giftLine]
                      IN  IF Len(toRemove) > 0
                          THEN [found EXCEPT !.pc = "removeGiftItems", !.lineIds = toRemove]
                          ELSE afterRemoval(found)

(* A mutation's outcome: the helper's result and the entry of the log.     *)
mutationCall(op, lineIds, lines, response, operation) ==
    IF response.threw
    THEN Call(op, lineIds, lines, FALSE, TRUE, Null, Plain(NetworkError))
    ELSE Call(op, lineIds, lines, handleGraphQLErrors(response, operation).success, FALSE,
              ReportedError(response), handleGraphQLErrors(response, operation).reason)

(* A failed mutation ends the invocation: lines 402-407, 445-450, 461-466, *)
(* 484-489, or the handler's catch when the call threw.                    *)
failedMutation(rec, call) ==
    IF call.threw THEN Throw(Logged(rec, call), NetworkError)
    ELSE Return(Logged(rec, call), ApplyGiftResult(FALSE, Null, call.reason))

(* afterRemoveGiftItems without the check of lines 445-450: on the        *)
(* eligible path a failed removal is not looked at.                        *)
afterRemoveGiftItems_IgnoresFailure(rec, response) ==
    LET call == mutationCall("cartLinesRemove", rec.lineIds, <<>>, response, "removing gift")
        subtotalAmount == calculateSubtotalWithoutGifts(rec.cartData)
    IN  IF call.threw THEN failedMutation(rec, call)
        ELSE IF ~rec.eligible
        THEN IF ~call.success THEN failedMutation(rec, call)
             ELSE Return(Logged(rec, call),
                         ApplyGiftResult(FALSE, Some(TRUE),
                                         BelowMinimumRemoved(subtotalAmount, rec.rules[1].minCartSubtotal)))
        ELSE afterRemoval(Logged(rec, call))

(* afterRemoveGiftItems returning once the extraneous lines are removed,  *)
(* leaving the update or the add to the next invocation.                   *)
afterRemoveGiftItems_StopsAfterRemoval(rec, response) ==
    LET call == mutationCall("cartLinesRemove", rec.lineIds, <<>>, response, "removing gift")
        subtotalAmount == calculateSubtotalWithoutGifts(rec.cartData)
    IN  IF ~call.success THEN failedMutation(rec, call)
        ELSE IF ~rec.eligible
        THEN Return(Logged(rec, call),
                    ApplyGiftResult(FALSE, Some(TRUE),
                                    BelowMinimumRemoved(subtotalAmount, rec.rules[1].minCartSubtotal)))
        ELSE Return(Logged(rec, call), ApplyGiftResult(TRUE, Null, Plain("Gift applied successfully")))

(* lines 401-413 and 444-451, with removeGiftItems.                        *)
afterRemoveGiftItems(rec, response) ==
    LET call == mutationCall("cartLinesRemove", rec.lineIds, <<>>, response, "removing gift")
        subtotalAmount == calculateSubtotalWithoutGifts(rec.cartData)
    IN  IF ~call.success THEN failedMutation(rec, call)
        ELSE IF ~rec.eligible
        THEN Return(Logged(rec, call),
                    ApplyGiftResult(FALSE, Some(TRUE),
                                    BelowMinimumRemoved(subtotalAmount, rec.rules[1].minCartSubtotal)))
        ELSE afterRemoval(Logged(rec, call))

(* An update that sends quantity 2.                                        *)
quantityUpdate_Two(giftLineId) == <<[id |-> giftLineId, quantity |-> 2]>>

(* The one line updateGiftQuantity sends.                                  *)
quantityUpdate(giftLineId) == <<[id |-> giftLineId, quantity |-> 1]>>

(* afterUpdateGiftQuantity going on to add a gift after the update.        *)
afterUpdateGiftQuantity_ThenAdds(rec, response) ==
    LET call == mutationCall("cartLinesUpdate", <<rec.giftLine[1].id>>,
                             quantityUpdate(rec.giftLine[1].id), response, "updating quantity")
    IN  IF ~call.success THEN failedMutation(rec, call)
        ELSE [Logged(rec, call) EXCEPT !.pc = "addGiftItem"]

(* lines 459-471, with updateGiftQuantity.                                 *)
afterUpdateGiftQuantity(rec, response) ==
    LET call == mutationCall("cartLinesUpdate", <<rec.giftLine[1].id>>,
                             quantityUpdate(rec.giftLine[1].id), response, "updating quantity")
    IN  IF ~call.success THEN failedMutation(rec, call)
        ELSE Return(Logged(rec, call), ApplyGiftResult(TRUE, Null, Plain("Gift quantity updated to 1")))

(* giftLineInput without the gift attribute.                              *)
giftLineInput_NoFlag(giftVariantId) ==
    [quantity |-> 1, merchandiseId |-> giftVariantId, attributes |-> <<>>]

(* The one line addGiftItem sends.                                         *)
giftLineInput(giftVariantId) ==
    [quantity |-> 1, merchandiseId |-> giftVariantId, attributes |-> GiftAttributes]

(* lines 482-494, with addGiftItem.                                        *)
afterAddGiftItem(rec, response) ==
    LET call == mutationCall("cartLinesAdd", <<>>, <<giftLineInput(rec.rules[1].giftVariantId)>>,
                             response, "adding gift")
    IN  IF ~call.success THEN failedMutation(rec, call)
        ELSE Return(Logged(rec, call), ApplyGiftResult(TRUE, Null, Plain("Gift applied successfully")))

applyGiftLogic_getGiftRules(p) ==
    /\ inv[p].pc = "getGiftRules"
    /\ \E response \in {AdminOk(store),
                         [threw |-> TRUE, ok |-> FALSE, errors |-> <<>>, data |-> Null],
                         [threw |-> FALSE, ok |-> FALSE, errors |-> <<>>, data |-> Null],
                         [threw |-> FALSE, ok |-> TRUE, errors |-> <<"Throttled">>, data |-> Null]} :
        /\ Spend(response # AdminOk(store))
        /\ inv' = [inv EXCEPT ![p] = afterGetGiftRules(inv[p], response)]
    /\ UNCHANGED <<store, cart, nextId, pricing, settings, page, applying>>

applyGiftLogic_getCartData(p) ==
    /\ inv[p].pc = "getCartData"
    /\ \E response \in {[threw |-> FALSE, errors |-> <<>>, data |-> Some(cart)],
                         [threw |-> TRUE, errors |-> <<>>, data |-> Null],
                         [threw |-> FALSE, errors |-> <<"Throttled">>, data |-> Null],
                         [threw |-> FALSE, errors |-> <<"">>, data |-> Null],
                         [threw |-> FALSE, errors |-> <<>>, data |-> Null]} :
        /\ Spend(response.data = Null)
        /\ inv' = [inv EXCEPT ![p] = afterGetCartData(inv[p], response)]
    /\ UNCHANGED <<store, cart, nextId, pricing, settings, page, applying>>

applyGiftLogic_removeGiftItems(p) ==
    /\ inv[p].pc = "removeGiftItems"
    /\ \E response \in {MutationOk} \cup MutationFailures :
        /\ Spend(response # MutationOk)
        /\ inv' = [inv EXCEPT ![p] = afterRemoveGiftItems(inv[p], response)]
        /\ cart' = IF response = MutationOk THEN cartLinesRemove(cart, inv[p].lineIds) ELSE cart
    /\ UNCHANGED <<store, nextId, pricing, settings, page, applying>>

applyGiftLogic_updateGiftQuantity(p) ==
    /\ inv[p].pc = "updateGiftQuantity"
    /\ \E response \in {MutationOk} \cup MutationFailures :
        /\ Spend(response # MutationOk)
        /\ inv' = [inv EXCEPT ![p] = afterUpdateGiftQuantity(inv[p], response)]
        /\ cart' = IF response = MutationOk
                   THEN cartLinesUpdate(cart, quantityUpdate(inv[p].giftLine[1].id)[1].id,
                                        quantityUpdate(inv[p].giftLine[1].id)[1].quantity)
                   ELSE cart
    /\ UNCHANGED <<store, nextId, pricing, settings, page, applying>>

applyGiftLogic_addGiftItem(p) ==
    /\ inv[p].pc = "addGiftItem"
    /\ \E response \in {MutationOk} \cup MutationFailures :
        /\ Spend(response # MutationOk)
        /\ inv' = [inv EXCEPT ![p] = afterAddGiftItem(inv[p], response)]
        /\ cart' = IF response = MutationOk
                   THEN cartLinesAdd(cart, nextId, giftLineInput(inv[p].rules[1].giftVariantId))
                   ELSE cart
        /\ nextId' = IF response = MutationOk THEN nextId + 1 ELSE nextId
    /\ UNCHANGED <<store, pricing, settings, page, applying>>

(***************************************************************************)
(* The discount function, cart_lines_discounts_generate_run.ts             *)
(***************************************************************************)
(* CartInput: lines [id, isGift] with the ids the platform gave them, and  *)
(* the discount classes of the discount being evaluated. The isGift field  *)
(* of a line is its _is_gift attribute, Null when the line has none.       *)
CartInputs ==
    UNION {{[cart |-> [lines |-> [i \in 1..n |-> [id |-> i, isGift |-> g[i]]]],
             discount |-> [discountClasses |-> classes]] :
                g \in [1..n -> {Null, Some([value |-> "true"]), Some([value |-> "false"])}],
                classes \in SUBSET {"PRODUCT", "ORDER", "SHIPPING"}} :
           n \in 0..MaxLines}

(* lines 29-32: line.isGift?.value === 'true'                              *)
giftLines(lines) ==
    SelectSeq(lines, LAMBDA line : line.isGift # Null /\ line.isGift[1].value = "true")

(* A candidate taking half of the price.                                   *)
candidate_HalfOff(line) ==
    [message |-> "Free gift item",
     targets |-> <<[cartLine |-> [id |-> line.id]]>>,
     value |-> [percentage |-> [value |-> 50]]]

(* lines 45-59: the candidate of one gift line.                            *)
candidate(line) ==
    [message |-> "Free gift item",
     targets |-> <<[cartLine |-> [id |-> line.id]]>>,
     value |-> [percentage |-> [value |-> 100]]]

NoOperations == [operations |-> <<>>]

(* The function without its check of the discount classes.                 *)
cartLinesDiscountsGenerateRun_AnyClass(input) ==
    IF Len(input.cart.lines) = 0 THEN NoOperations
    ELSE IF Len(giftLines(input.cart.lines)) = 0 THEN NoOperations
    ELSE LET gifts == giftLines(input.cart.lines)
         IN  [operations |->
                <<[productDiscountsAdd |->
                    [candidates |-> [i \in 1..Len(gifts) |-> candidate(gifts[i])],
                     selectionStrategy |-> "FIRST"]]>>]

cartLinesDiscountsGenerateRun(input) ==
    IF Len(input.cart.lines) = 0 THEN NoOperations
    ELSE IF "PRODUCT" \notin input.discount.discountClasses THEN NoOperations
    ELSE IF Len(giftLines(input.cart.lines)) = 0 THEN NoOperations
    ELSE LET gifts == giftLines(input.cart.lines)
         IN  [operations |->
                <<[productDiscountsAdd |->
                    [candidates |-> [i \in 1..Len(gifts) |-> candidate(gifts[i])],
                     selectionStrategy |-> "FIRST"]]>>]

(* One pricing pass of checkout: the function is run on the input and its  *)
(* result kept.                                                            *)
IdlePricing == [input |-> Null, result |-> Null]

run(input) ==
    /\ pricing.result = Null
    /\ pricing.input = Some(input)
    /\ pricing' = [pricing EXCEPT !.result = Some(cartLinesDiscountsGenerateRun(input))]
    /\ UNCHANGED <<store, cart, nextId, inv, budget, settings, page, applying>>

(* The input checkout builds from a cart: every line with its id and its   *)
(* _is_gift attribute, Null when the line has none.                        *)
cartInput(c, classes) ==
    LET isGiftOf(line) ==
            LET found == SelectSeq(line.attributes, LAMBDA a : a.key = GIFT_ATTRIBUTE_KEY)
            IN  IF found = <<>> THEN Null ELSE Some([value |-> found[1].value])
    IN  [cart |-> [lines |-> [i \in 1..Len(c) |-> [id |-> c[i].id, isGift |-> isGiftOf(c[i])]]],
         discount |-> [discountClasses |-> classes]]

(* Checkout prices the cart as it is: the function is run on the cart's    *)
(* lines, once in a behaviour.                                             *)
checkout(classes) ==
    /\ pricing = IdlePricing
    /\ pricing' = [input |-> Some(cartInput(cart, classes)),
                   result |-> Some(cartLinesDiscountsGenerateRun(cartInput(cart, classes)))]
    /\ UNCHANGED <<store, cart, nextId, inv, budget, settings, page, applying>>

(***************************************************************************)
(* The settings page, app.gift-rule.tsx                                    *)
(***************************************************************************)
(* The texts typed as minimum subtotal: numbers of at least zero, as      *)
(* parseFloat reads them (Infinity, fractions, an exponent and a number    *)
(* after an em space among them) and texts without a number (one with a   *)
(* number after a letter outside ASCII); -5 stands for the negative ones.  *)
NumberTexts ==
    {<<"0">>, Text50, <<"5", "a">>, <<" ", "5">>, <<"\t", "5">>, <<"-", "0">>,
     InfinityText, <<"1", "2", ".", "5">>, <<"1", "e", "2">>, <<".", "5">>,
     <<"1", ".", "1">>, <<"U+2003", "5">>}
NotNumberTexts == {<<>>, <<"a">>, <<"-">>, <<"U+00E9", "5">>}

(* A submission: the session's shop (Null without a session) and the form  *)
(* fields, "" for a field that is not sent. The submissions are the good   *)
(* one and those differing from it in one field, or in two.                *)
GoodForm ==
    [shop |-> Some("shop-1.myshopify.com"), giftVariantId |-> "V1",
     minCartSubtotal |-> Text50, enableRule |-> "on"]

Forms ==
    {GoodForm, [GoodForm EXCEPT !.shop = Null]}
    \cup {[GoodForm EXCEPT !.giftVariantId = v] : v \in {"", "V2"}}
    \cup {[GoodForm EXCEPT !.minCartSubtotal = t] : t \in NumberTexts \cup NotNumberTexts \cup {<<"-", "5">>}}
    \cup {[GoodForm EXCEPT !.enableRule = e] : e \in {"", "true", "false", "off"}}
    \cup {[GoodForm EXCEPT !.giftVariantId = "", !.minCartSubtotal = <<"a">>]}

(* giftRuleSchema.safeParse, lines 179-195: the issues in the order of the *)
(* checks, and the parsed data when there is none.                         *)
Issue(path, message) == [path |-> path, message |-> message]

(* The schema without the refinement of the minimum subtotal.              *)
giftRuleSchema_NoRefine(rawData) ==
    LET issues ==
            (IF rawData.giftVariantId = ""
             THEN <<Issue("giftVariantId", "Gift variant ID is required")>> ELSE <<>>)
            \o (IF Len(rawData.minCartSubtotal) < 1
                THEN <<Issue("minCartSubtotal", "Min cart subtotal is required")>> ELSE <<>>)
    IN  [success |-> issues = <<>>,
         issues |-> issues,
         data |-> IF issues # <<>> THEN Null
                  ELSE Some([giftVariantId |-> rawData.giftVariantId,
                             minCartSubtotal |-> rawData.minCartSubtotal,
                             enableRule |-> rawData.enableRule \in {"on", "true"}])]

giftRuleSchema(rawData) ==
    LET refine(num) ==
            IF ~(~isNaN(num) /\ atLeast(num, Whole[0]))
            THEN <<Issue("minCartSubtotal", "Min cart subtotal must be a number >= 0")>> ELSE <<>>
        safeParse(issues) ==
            [success |-> issues = <<>>,
             issues |-> issues,
             data |-> IF issues # <<>> THEN Null
                      ELSE Some([giftVariantId |-> rawData.giftVariantId,
                                 minCartSubtotal |-> rawData.minCartSubtotal,
                                 enableRule |-> rawData.enableRule \in {"on", "true"}])]
    IN  safeParse((IF rawData.giftVariantId = ""
                   THEN <<Issue("giftVariantId", "Gift variant ID is required")>> ELSE <<>>)
                  \o (IF Len(rawData.minCartSubtotal) < 1
                      THEN <<Issue("minCartSubtotal", "Min cart subtotal is required")>> ELSE <<>>)
                  \o refine(parseFloatText(rawData.minCartSubtotal)))

(* mapValidationErrors: one message per field, the last issue's.           *)
mapValidationErrors(issues) ==
    [path \in {issues[i].path : i \in 1..Len(issues)} |->
        LET last == CHOOSE i \in 1..Len(issues) :
                        /\ issues[i].path = path
                        /\ \A j \in (i + 1)..Len(issues) : issues[j].path # path
        IN  issues[last].message]

General(message) == [path \in {"general"} |-> message]

(* ActionData; errors is Null when the field is not set. threw carries the *)
(* message of an exception that leaves the handler.                        *)
ActionData(success, errors) == [success |-> success, errors |-> errors, threw |-> Null]
Rejected(message) == [success |-> FALSE, errors |-> Null, threw |-> Some(message)]

(* prepareGiftRuleMetafields: the three values written.                    *)
prepareGiftRuleMetafields(config) ==
    [gift_variant_id |-> config.giftVariantId,
     min_cart_subtotal |-> Some(config.minCartSubtotal),
     enable_rule |-> IF config.enableRule THEN "true" ELSE "false"]

(* Answers of the Admin API to the three calls of a save. A call throws,   *)
(* or answers with its data: the installation's id (Null without one),    *)
(* the userErrors of a mutation, the metafields set and the discount       *)
(* created (Null without them, as in an answer whose data is null or that  *)
(* holds errors only).                                                     *)
InstallationOk == [threw |-> FALSE, id |-> Some("gid://shopify/AppInstallation/1")]

MetafieldsSetOk ==
    [threw |-> FALSE, userErrors |-> <<>>,
     metafields |-> Some(<<"gift_variant_id", "min_cart_subtotal", "enable_rule">>)]

DiscountOk == [threw |-> FALSE, userErrors |-> <<>>, discount |-> Some("gid://shopify/DiscountAutomaticNode/1")]
DiscountFailures ==
    {[threw |-> TRUE, userErrors |-> <<>>, discount |-> Null],
     [threw |-> FALSE, userErrors |-> <<"Function not found">>, discount |-> Null],
     [threw |-> FALSE, userErrors |-> <<>>, discount |-> Null]}

getCurrentAppInstallationId(response) == response.id

RECURSIVE join(_)
join(messages) ==
    IF messages = <<>> THEN ""
    ELSE IF Len(messages) = 1 THEN messages[1]
    ELSE join(SubSeq(messages, 1, Len(messages) - 1)) \o ", " \o messages[Len(messages)]

(* saveGiftRuleMetafields, lines 314-352: json.data?.metafieldsSet          *)
(* ?.userErrors || [] is all that is read of the answer.                   *)
saveGiftRuleMetafields(response) ==
    IF response.threw THEN [success |-> FALSE, errors |-> <<NetworkError>>]
    ELSE IF Len(response.userErrors) > 0 THEN [success |-> FALSE, errors |-> response.userErrors]
    ELSE [success |-> TRUE, errors |-> <<>>]

createAutomaticAppDiscount(response) ==
    IF response.threw THEN [success |-> FALSE, errors |-> <<NetworkError>>]
    ELSE IF Len(response.userErrors) > 0 THEN [success |-> FALSE, errors |-> response.userErrors]
    ELSE IF response.discount # Null THEN [success |-> TRUE, errors |-> <<>>]
    ELSE [success |-> FALSE, errors |-> <<"No discount data returned">>]

(* saveGiftRule, lines 418-456, given the answers to its calls: the result *)
(* and the calls issued. An exception of the first call is not caught.     *)
saveGiftRule(config, installation, metafieldsSet, discount) ==
    IF installation.threw
    THEN [result |-> Rejected(NetworkError), calls |-> <<"currentAppInstallation">>]
    ELSE IF getCurrentAppInstallationId(installation) = Null
    THEN [result |-> ActionData(FALSE, Some(General("Failed to get current app installation"))),
          calls |-> <<"currentAppInstallation">>]
    ELSE LET metafieldsResult == saveGiftRuleMetafields(metafieldsSet)
             discountResult == createAutomaticAppDiscount(discount)
         IN  IF ~metafieldsResult.success
             THEN [result |-> ActionData(FALSE, Some(General(
                                  IF join(metafieldsResult.errors) # ""
                                  THEN join(metafieldsResult.errors) ELSE "Failed to save gift rule"))),
                   calls |-> <<"currentAppInstallation", "metafieldsSet">>]
             ELSE [result |-> IF ~discountResult.success
                              THEN ActionData(TRUE, Null)
                              ELSE ActionData(TRUE, Null),
                   calls |-> <<"currentAppInstallation", "metafieldsSet", "discountAutomaticAppCreate">>]

(* saveGiftRule as far as the answers received allow: the calls answered   *)
(* so far, and the result once no further call follows them.               *)
saveGiftRuleSoFar(config, answers) ==
    LET given(answer, ok) == IF answer = Null THEN ok ELSE answer[1]
        whole == saveGiftRule(config, given(answers.installation, InstallationOk),
                              given(answers.metafieldsSet, MetafieldsSetOk),
                              given(answers.discount, DiscountOk))
        answered == Cardinality({f \in DOMAIN answers : answers[f] # Null})
    IN  IF Len(whole.calls) <= answered
        THEN [calls |-> whole.calls, result |-> Some(whole.result), next |-> "idle"]
        ELSE [calls |-> SubSeq(whole.calls, 1, answered), result |-> Null,
              next |-> whole.calls[answered + 1]]

(* A submission of the settings form: the step it waits at ("idle" when    *)
(* none is under way), its form, the answers received so far (Null for a   *)
(* call that is not answered yet), the calls and result so far, and the    *)
(* rule store when it was received.                                        *)
IdleSubmission ==
    [pc |-> "idle", form |-> Null,
     answers |-> [installation |-> Null, metafieldsSet |-> Null, discount |-> Null],
     calls |-> <<>>, result |-> Null, before |-> Null]

(* The settings page: the submissions, one per session that submits, the   *)
(* last form that was written, and the counts of submissions received and  *)
(* of discountAutomaticAppCreate mutations issued so far.                  *)
IdleSettings ==
    [submissions |-> 0, registrations |-> 0, saved |-> Null,
     runs |-> [s \in {1} |-> IdleSubmission]]

validatedData(form) ==
    giftRuleSchema([giftVariantId |-> form.giftVariantId,
                    minCartSubtotal |-> form.minCartSubtotal,
                    enableRule |-> form.enableRule])

(* action of the route, lines 40-92, up to the first remote call of        *)
(* saveGiftRule.                                                           *)
giftRuleAction(s, form) ==
    /\ settings.submissions < MaxSubmissions
    /\ settings.runs[s].pc = "idle"
    /\ LET validationResult == validatedData(form)
           received == [IdleSubmission EXCEPT !.form = Some(form), !.before = Some(store)]
           returned(result) == [received EXCEPT !.result = Some(result)]
       IN  settings' =
               [settings EXCEPT
                   !.submissions = @ + 1,
                   !.runs[s] =
                       IF form.shop = Null
                       THEN returned(ActionData(FALSE, Some(General("Unable to get shop domain"))))
                       ELSE IF ~validationResult.success
                       THEN returned(ActionData(FALSE, Some(mapValidationErrors(validationResult.issues))))
                       ELSE [received EXCEPT !.pc = "currentAppInstallation"]]
    /\ UNCHANGED <<store, cart, nextId, inv, budget, pricing, page, applying>>

(* A remote call of saveGiftRule is answered: the run goes on to the next  *)
(* call or returns.                                                        *)
answered(submission, answers) ==
    LET soFar == saveGiftRuleSoFar(validatedData(submission.form[1]).data[1], answers)
    IN  [submission EXCEPT !.pc = soFar.next, !.answers = answers,
                    !.calls = soFar.calls, !.result = soFar.result]

(* saveGiftRule, line 425: the installation id is read.                    *)
saveGiftRule_getCurrentAppInstallationId(s) ==
    /\ settings.runs[s].pc = "currentAppInstallation"
    /\ \E response \in {InstallationOk, [threw |-> FALSE, id |-> Null], [threw |-> TRUE, id |-> Null]} :
        /\ Spend(response # InstallationOk)
        /\ settings' = [settings EXCEPT !.runs[s] =
                            answered(@, [@.answers EXCEPT !.installation = Some(response)])]
    /\ UNCHANGED <<store, cart, nextId, inv, pricing, page, applying>>

(* saveGiftRule, line 435: metafieldsSet; the platform has written the     *)
(* three metafields when its answer holds them. It holds none when the     *)
(* call throws, when the mutation reports userErrors, and when the answer  *)
(* is without data.                                                        *)
saveGiftRule_saveGiftRuleMetafields(s) ==
    /\ settings.runs[s].pc = "metafieldsSet"
    /\ \E response \in {MetafieldsSetOk}
                       \cup [threw : {TRUE}, userErrors : {<<>>}, metafields : {Null}]
                       \cup [threw : {FALSE}, metafields : {Null},
                             userErrors : {<<>>, <<"Value is invalid">>, <<"">>,
                                           <<"Value is invalid", "Owner does not exist">>}] :
        LET written == ~response.threw /\ response.metafields # Null
            form == settings.runs[s].form[1]
        IN  /\ Spend(~written)
            /\ store' = IF written THEN prepareGiftRuleMetafields(validatedData(form).data[1])
                        ELSE store
            /\ settings' = [settings EXCEPT
                                !.saved = IF written THEN Some(form) ELSE @,
                                !.runs[s] = answered(@, [@.answers EXCEPT !.metafieldsSet = Some(response)])]
    /\ UNCHANGED <<cart, nextId, inv, pricing, page, applying>>

(* saveGiftRule, line 447: discountAutomaticAppCreate is issued.           *)
saveGiftRule_createAutomaticAppDiscount(s) ==
    /\ settings.runs[s].pc = "discountAutomaticAppCreate"
    /\ \E response \in {DiscountOk} \cup DiscountFailures :
        /\ Spend(response # DiscountOk)
        /\ settings' = [settings EXCEPT
                            !.registrations = @ + 1,
                            !.runs[s] = answered(@, [@.answers EXCEPT !.discount = Some(response)])]
    /\ UNCHANGED <<store, cart, nextId, inv, pricing, page, applying>>

(***************************************************************************)
(* The banner, gift-banner.js: settings, status and the applyGift flow     *)
(***************************************************************************)
(* The attributes of a <gift-banner> element, Null for an absent one, and  *)
(* whether the block holds an apply button. 75.1 * 100 is not a whole      *)
(* number of cents in the code's arithmetic, it is 7509.999999999999, and  *)
(* "abc" is a text parseFloat cannot read.                                 *)
BannerAttributes ==
    [minSubtotal : {Null, Some(<<>>), Some(Text50), Some(<<"7", "5", ".", "1">>),
                    Some(<<"a", "b", "c">>)},
     isRuleEnabled : {Null, Some("false")}, applyButton : BOOLEAN]

(* a - k of the code for a whole k >= 0: both in units of 2^e, the digits  *)
(* added or subtracted eight at a time from the last ones on, and the      *)
(* result rounded.                                                         *)
Minus[a \in Seq(Int), k \in Nat] ==
    LET Zeros(n) == [i \in 1..n |-> 0]
        Combine[x \in Seq({0, 1}), y \in Seq({0, 1}), sign \in {-1, 1}, carry \in Int] ==
            IF Len(x) <= 8 THEN Bits[Value[x] + sign * Value[y] + carry]
            ELSE Combine[SubSeq(x, 1, Len(x) - 8), SubSeq(y, 1, Len(y) - 8), sign,
                         (Value[SubSeq(x, Len(x) - 7, Len(x))]
                            + sign * Value[SubSeq(y, Len(y) - 7, Len(y))] + carry) \div 256]
                 \o Digits[(Value[SubSeq(x, Len(x) - 7, Len(x))]
                              + sign * Value[SubSeq(y, Len(y) - 7, Len(y))] + carry) % 256, 8]
        Aligned[x \in Seq({0, 1}), y \in Seq({0, 1}), e \in Int] ==
            IF a[1] < 0 THEN Rounded[-1, Combine[x, y, 1, 0], e]
            ELSE IF Order[a, Whole[k]] >= 0 THEN Rounded[1, Combine[x, y, -1, 0], e]
            ELSE Rounded[-1, Combine[y, x, -1, 0], e]
        Padded[x \in Seq({0, 1}), y \in Seq({0, 1}), e \in Int] ==
            Aligned[Zeros(Len(y) - Len(x)) \o x, Zeros(Len(x) - Len(y)) \o y, e]
        Scaled[e \in Int] ==
            Padded[SubSeq(a, 3, Len(a)) \o Zeros(a[2] - e), Bits[k] \o Zeros(0 - e), e]
    IN  IF Len(a) < 2 THEN a ELSE Scaled[IF a[2] < 0 THEN a[2] ELSE 0]

(* loadSettings, lines 36-43: parseFloat(attribute || '0') * 100 and       *)
(* attribute !== 'false'; an attribute that is absent or empty is falsy.   *)
loadSettings(attributes) ==
    LET minSubtotal == parseFloatText(IF attributes.minSubtotal \in {Null, Some(<<>>)} THEN <<"0">>
                                      ELSE attributes.minSubtotal[1])
    IN  [minSubtotalCents |-> Times[minSubtotal, 100],
         isRuleEnabled |-> attributes.isRuleEnabled # Some("false"),
         lastState |-> Null]

(* total_price of /cart.js: the lines' costs, in cents.                    *)
RECURSIVE total_price(_)
total_price(c) ==
    IF c = <<>> THEN 0 ELSE 100 * parseFloat(Head(c).cost) + total_price(Tail(c))

(* getCartState, lines 108-124: the total of the cart fetched, 0 when the  *)
(* fetch failed or the total is missing.                                   *)
CartJsOk(c) == [ok |-> TRUE, total_price |-> total_price(c), token |-> Some("c1")]
CartJsFailure == [ok |-> FALSE, total_price |-> 0, token |-> Null]

getCartState(response) ==
    IF ~response.ok THEN [totalPrice |-> 0] ELSE [totalPrice |-> response.total_price]

(* calculateState, lines 139-147; a comparison with NaN is false and       *)
(* Math.max(0, NaN) is NaN.                                                *)
calculateState(instance, cartTotalCents) ==
    LET remaining == Minus[instance.minSubtotalCents, cartTotalCents]
    IN  [isEligible |-> atLeast(Whole[cartTotalCents], instance.minSubtotalCents),
         remainingCents |-> IF isNaN(remaining) THEN NaN
                            ELSE IF lessThan(Whole[0], remaining) THEN remaining ELSE Whole[0]]

(* String.prototype.includes                                               *)
includes(text, needle) ==
    \E i \in 1..(Len(text) - Len(needle) + 1) : SubSeq(text, i, i + Len(needle) - 1) = needle

(* getStatusFromResult without the needle "less than minimum".            *)
getStatusFromResult_OneNeedle(result) ==
    IF result.applied THEN "applied"
    ELSE IF result.reason # Null /\ (\/ includes(result.reason.text, "already added to cart")
                                     \/ includes(result.reason.text, "already in cart"))
    THEN "already exists"
    ELSE IF result.reason # Null /\ includes(result.reason.text, "not eligible")
    THEN "not eligible"
    ELSE "error"

(* getStatusFromResult, lines 231-247. The needles hold letters, so they   *)
(* are looked for in the text of the reason, whose %1 and %2 stand for     *)
(* amounts.                                                                *)
getStatusFromResult(result) ==
    IF result.applied THEN "applied"
    ELSE IF result.reason # Null /\ (\/ includes(result.reason.text, "already added to cart")
                                     \/ includes(result.reason.text, "already in cart"))
    THEN "already exists"
    ELSE IF result.reason # Null /\ (\/ includes(result.reason.text, "less than minimum")
                                     \/ includes(result.reason.text, "not eligible"))
    THEN "not eligible"
    ELSE "error"

(* showStatus, lines 253-287: the status element that replaces the one on  *)
(* screen, and whether the timer that removes it after 5 s is set. The     *)
(* pictograph that starts each text is left out.                           *)
showStatus(status, message) ==
    LET statusText ==
            CASE status = "applied" -> Plain("Gift applied successfully!")
              [] status = "already exists" -> Plain("Gift already in cart")
              [] status = "not eligible" -> Plain("Cart total is below minimum")
              [] status = "loading" -> Plain("Applying gift...")
              [] OTHER -> IF message = Null \/ message.text = "" THEN Plain("Failed to apply gift")
                          ELSE message
    IN  [status |-> status, textContent |-> statusText, timer |-> status # "error"]

(* lines 341-349 reloading after every answer.                             *)
reloads_Always(result) == TRUE

(* lines 341-349: result.applied || result.removed                         *)
reloads(result) == result.applied \/ result.removed = Some(TRUE)

(***************************************************************************)
(* The banner: the patch of fetch and updateBanner                         *)
(***************************************************************************)
(* The carts of the page the fetch patch is followed on: lines the shopper *)
(* chose, of 25 and of 50.                                                 *)
PageCarts ==
    LET line(v, i) == [id |-> i, quantity |-> 1, cost |-> Some(UnitPrice(v)), merchandise |-> v,
                       attributes |-> <<>>]
    IN  {<<>>, <<line("V1", 1)>>, <<line("V1", 1), line("V2", 2)>>}

(* The page: the attributes of the gift-banner elements its document      *)
(* holds, window.__cartFetchPatched, the wrappers installed around         *)
(* window.fetch (each with the lastCartToken of its closure), the elements *)
(* constructed so far, the updateBanner calls waiting for their cart, the  *)
(* fetches the theme has made, and those of them that wait in a wrapper.   *)
IdlePage ==
    [document |-> <<>>, patched |-> FALSE, wrappers |-> <<>>, banners |-> <<>>,
     calls |-> <<>>, fetches |-> 0, requests |-> <<>>]

(* A banner element after loadSettings: the fields of the instance, what   *)
(* it displays, and what it has done so far.                               *)
GiftBanner(attributes) ==
    [minSubtotalCents |-> loadSettings(attributes).minSubtotalCents,
     isRuleEnabled |-> loadSettings(attributes).isRuleEnabled,
     lastState |-> loadSettings(attributes).lastState,
     applyButton |-> attributes.applyButton,
     display |-> "", rendered |-> <<>>, updateCalls |-> 0, latestRead |-> Null]

(* setupEventListeners without the test of the flag.                       *)
setupEventListeners_NoFlag(pg) ==
    [pg EXCEPT !.patched = TRUE, !.wrappers = Append(@, [lastCartToken |-> Null])]

(* setupEventListeners, lines 60-106: fetch is wrapped unless the flag is  *)
(* set; the wrapper's closure starts with lastCartToken null.              *)
setupEventListeners(pg) ==
    IF pg.patched THEN pg
    ELSE [pg EXCEPT !.patched = TRUE, !.wrappers = Append(@, [lastCartToken |-> Null])]

(* updateBanner up to its await, lines 149-155: the banner is hidden when  *)
(* the rule is off, else the cart is asked for.                            *)
updateBanner(pg, b) ==
    IF ~pg.banners[b].isRuleEnabled
    THEN [pg EXCEPT !.banners[b].updateCalls = @ + 1, !.banners[b].display = "none"]
    ELSE [pg EXCEPT !.banners[b].updateCalls = @ + 1,
                    !.calls = Append(@, [banner |-> b, read |-> Null])]

(* lines 94-98: updateBanner on every gift-banner of the document, from    *)
(* the b-th on.                                                            *)
RECURSIVE updateAll(_, _)
updateAll(pg, b) ==
    IF b > Len(pg.banners) THEN pg ELSE updateAll(updateBanner(pg, b), b + 1)

(* lines 87-89: the token of a cart response; cart.items?. gives undefined *)
(* for a body without items.                                               *)
tokenOf(body) ==
    IF body.items = Null THEN [defined |-> FALSE, pairs |-> <<>>]
    ELSE [defined |-> TRUE,
          pairs |-> [i \in 1..Len(body.items[1]) |-> <<body.items[1][i].id, body.items[1][i].quantity>>]]

(* lines 87-99: what the w-th wrapper does with the body it has read.       *)
wrapper(pg, w, response) ==
    IF Some(tokenOf(response.body)) # pg.wrappers[w].lastCartToken
    THEN updateAll([pg EXCEPT !.wrappers[w].lastCartToken = Some(tokenOf(response.body))], 1)
    ELSE pg

(* line 104 or an early return: the wrapper of request r returns the       *)
(* response, to the wrapper installed after it if the fetch was made       *)
(* through one, else to the theme.                                         *)
return(pg, r) ==
    IF pg.requests[r].w < pg.requests[r].upto
    THEN [pg EXCEPT !.requests[r].w = @ + 1, !.requests[r].pc = "fetch"]
    ELSE [pg EXCEPT !.requests = SubSeq(@, 1, r - 1) \o SubSeq(@, r + 1, Len(@))]

(* The body of /cart.js and of the cart endpoints that answer with the     *)
(* cart.                                                                   *)
CartJson(c) ==
    [items |-> Some([i \in 1..Len(c) |-> [id |-> c[i].id, quantity |-> c[i].quantity]]),
     total_price |-> total_price(c)]

(* The fetches of the theme and what they do to the cart: a change of the  *)
(* cart answered with the cart, an add answered with the line added, a     *)
(* read of /cart.js, and answers that are not ok or not JSON.              *)
ThemeFetches(c) ==
    {[url |-> "/cart/change.js", ok |-> TRUE, contentType |-> "application/json; charset=utf-8",
      body |-> CartJson(after), after |-> after] : after \in PageCarts}
    \cup {[url |-> "/cart/add.js", ok |-> TRUE, contentType |-> "application/json; charset=utf-8",
           body |-> [items |-> Null, total_price |-> 0], after |-> after] :
                after \in {a \in PageCarts : Len(a) = Len(c) + 1 /\ SubSeq(a, 1, Len(c)) = c}}
    \cup {[url |-> "/cart.js", ok |-> TRUE, contentType |-> "application/json; charset=utf-8",
           body |-> CartJson(c), after |-> c],
          [url |-> "/cart/change.js", ok |-> FALSE, contentType |-> "application/json; charset=utf-8",
           body |-> [items |-> Null, total_price |-> 0], after |-> c],
          [url |-> "/cart/update.js", ok |-> TRUE, contentType |-> "text/html",
           body |-> CartJson(c), after |-> c]}

(* A fetch of the theme through window.fetch, served by the shop: the cart *)
(* is what the request makes it, and the wrappers the fetch was made       *)
(* through wait for the response at line 72, the first one first. The      *)
(* theme fetches MaxFetches times on a page with one banner and once less  *)
(* for every further banner of the document, while the updateBanner calls  *)
(* that the fetch and the fetches that wait can start have room among the  *)
(* waiting ones.                                                           *)
themeFetch ==
    /\ page.fetches + Len(page.document) <= MaxFetches
    /\ Len(page.calls) + Len(page.banners) * (Len(page.requests) + 1) <= MaxCalls
    /\ \E response \in ThemeFetches(cart) :
        /\ cart' = response.after
        /\ page' = [page EXCEPT !.fetches = @ + 1,
                                !.requests = IF page.wrappers = <<>> THEN @
                                             ELSE Append(@, [response |-> response, w |-> 1,
                                                             upto |-> Len(page.wrappers), pc |-> "fetch"])]
    /\ UNCHANGED <<store, nextId, inv, budget, pricing, settings, applying>>

(* line 72 goes on: the response of request r has arrived, the responses   *)
(* in any order. The wrapper waits for its body at line 85 when the url    *)
(* holds /cart/, the response is ok and its content type holds             *)
(* application/json, and returns it else (lines 74-83).                    *)
wrapper_afterFetch(r) ==
    /\ r \in 1..Len(page.requests)
    /\ page.requests[r].pc = "fetch"
    /\ page' = IF /\ includes(page.requests[r].response.url, "/cart/")
                  /\ page.requests[r].response.ok
                  /\ includes(page.requests[r].response.contentType, "application/json")
               THEN [page EXCEPT !.requests[r].pc = "json"]
               ELSE return(page, r)
    /\ UNCHANGED <<store, cart, nextId, inv, budget, pricing, settings, applying>>

(* line 85 goes on: the body of request r is read, the bodies in any       *)
(* order, while the updateBanner calls it can start have room among the    *)
(* waiting ones. Lines 87-99 compare its token with lastCartToken as it is *)
(* now.                                                                    *)
wrapper_afterJson(r) ==
    /\ r \in 1..Len(page.requests)
    /\ page.requests[r].pc = "json"
    /\ Len(page.calls) + Len(page.banners) <= MaxCalls
    /\ page' = return(wrapper(page, page.requests[r].w, page.requests[r].response), r)
    /\ UNCHANGED <<store, cart, nextId, inv, budget, pricing, settings, applying>>

(* The /cart.js of an updateBanner call is answered with the cart as it    *)
(* is now.                                                                 *)
updateBanner_getCartState(k) ==
    /\ k \in 1..Len(page.calls)
    /\ page.calls[k].read = Null
    /\ \E response \in {CartJsOk(cart), CartJsFailure} :
        /\ Spend(~response.ok)
        /\ page' = [page EXCEPT !.calls[k].read = Some(getCartState(response).totalPrice),
                                !.banners[page.calls[k].banner].latestRead =
                                    Some(getCartState(response).totalPrice)]
    /\ UNCHANGED <<store, cart, nextId, inv, pricing, settings, applying>>

(* updateBanner after its await, lines 156-167, with renderBanner; a === b *)
(* of two numbers is false when they are NaN.                              *)
afterGetCartState(instance, totalPrice) ==
    LET state == calculateState(instance, totalPrice)
    IN  IF instance.lastState # Null
           /\ instance.lastState[1].isEligible = state.isEligible
           /\ ~isNaN(state.remainingCents)
           /\ instance.lastState[1].remainingCents = state.remainingCents
        THEN instance
        ELSE [instance EXCEPT !.lastState = Some(state),
                              !.rendered = Append(@, [isEligible |-> state.isEligible,
                                                      remainingCents |-> state.remainingCents,
                                                      totalPrice |-> totalPrice]),
                              !.display = "block"]

(* An updateBanner call goes on after its await; the calls go on in any    *)
(* order.                                                                  *)
updateBanner_render(k) ==
    /\ k \in 1..Len(page.calls)
    /\ page.calls[k].read # Null
    /\ page' = [page EXCEPT !.banners[page.calls[k].banner] = afterGetCartState(@, page.calls[k].read[1]),
                            !.calls = SubSeq(@, 1, k - 1) \o SubSeq(@, k + 1, Len(@))]
    /\ UNCHANGED <<store, cart, nextId, inv, budget, pricing, settings, applying>>


(***************************************************************************)
(* The banner: construction, autoApplyOnLoad and applyGift                 *)
(***************************************************************************)
(* What the page's banners are doing: the calls of autoApplyOnLoad and of  *)
(* applyGift started since the page was loaded, the status element of each *)
(* banner, and the clicks and reloads so far.                              *)
IdleApplying == [flows |-> <<>>, statusElement |-> <<>>, clicks |-> 0, reloads |-> 0]

(* A call of autoApplyOnLoad (auto) or of applyGift from a click, on       *)
(* banner b: where it stands, the handler invocation that serves its       *)
(* request, the answer, the statuses it has shown and whether the last     *)
(* status element of the banner is its own.                                *)
Flow(b, auto) ==
    [banner |-> b, auto |-> auto, pc |-> IF auto THEN "waiting" ELSE "applyGift",
     silent |-> auto, process |-> 0, posted |-> FALSE, result |-> Null,
     shown |-> <<>>, showing |-> FALSE]

(* showStatus called by flow f: the element replaces the one of its banner. *)
show(ap, f, element) ==
    [ap EXCEPT !.statusElement[ap.flows[f].banner] = Some(element),
               !.flows = [g \in 1..Len(ap.flows) |->
                             IF g = f
                             THEN [ap.flows[g] EXCEPT !.shown = Append(@, element.status), !.showing = TRUE]
                             ELSE IF ap.flows[g].banner = ap.flows[f].banner
                             THEN [ap.flows[g] EXCEPT !.showing = FALSE]
                             ELSE ap.flows[g]]]

(* constructor and init, lines 11-30, of the next gift-banner element of   *)
(* the document: its settings are loaded, fetch is wrapped, the click      *)
(* listener is set, autoApplyOnLoad starts its wait of 500 ms and          *)
(* updateBanner asks for the cart.                                         *)
mount ==
    /\ Len(page.banners) < Len(page.document)
    /\ Len(page.calls) < MaxCalls
    /\ LET b == Len(page.banners) + 1
       IN  /\ page' = updateBanner(
                          setupEventListeners(
                              [page EXCEPT !.banners = Append(@, GiftBanner(page.document[b]))]), b)
           /\ applying' = [applying EXCEPT !.flows = Append(@, Flow(b, TRUE)),
                                           !.statusElement = Append(@, Null)]
    /\ UNCHANGED <<store, cart, nextId, inv, budget, pricing, settings>>

(* autoApplyOnLoad, lines 217-229, after the wait: the cart is fetched and *)
(* applyGift(true) entered when the state is eligible and the rule on.     *)
autoApplyOnLoad(f) ==
    /\ applying.flows[f].pc = "waiting"
    /\ \E response \in {CartJsOk(cart), CartJsFailure} :
        LET instance == page.banners[applying.flows[f].banner]
            cartState == getCartState(response)
            state == calculateState(instance, cartState.totalPrice)
        IN  /\ Spend(~response.ok)
            /\ applying' = [applying EXCEPT !.flows[f].pc =
                                IF state.isEligible /\ instance.isRuleEnabled THEN "applyGift"
                                ELSE "skipped"]
    /\ UNCHANGED <<store, cart, nextId, inv, pricing, settings, page>>

(* The click on the apply button of banner b, lines 205-211: applyGift()   *)
(* is called, whatever else is under way, and shows the status of line     *)
(* 293.                                                                    *)
click(b) ==
    /\ page.banners[b].applyButton
    /\ applying.clicks < MaxClicks
    /\ applying' = show([applying EXCEPT !.flows = Append(@, Flow(b, FALSE)), !.clicks = @ + 1],
                        Len(applying.flows) + 1, showStatus("loading", Plain("Applying gift...")))
    /\ UNCHANGED <<store, cart, nextId, inv, budget, pricing, settings, page>>

(* What the catch of lines 350-355 leaves.                                 *)
caught(ap, f, message) ==
    LET failed == [ap EXCEPT !.flows[f].pc = "settled"]
    IN  IF ap.flows[f].silent THEN failed
        ELSE show(failed, f, showStatus("error", Plain(message)))

(* The handler invocations that can take a request: those that are idle    *)
(* and whose answer no applyGift of the page waits for.                    *)
FreeProcesses ==
    {p \in DOMAIN inv :
        /\ inv[p].pc = "idle"
        /\ \A g \in 1..Len(applying.flows) :
                ~(applying.flows[g].pc = "posted" /\ applying.flows[g].process = p)}

(* applyGift, lines 296-330: the cart id is fetched and the request        *)
(* posted; the handler of the endpoint runs up to applyGiftLogic.          *)
applyGift_post(f) ==
    /\ applying.flows[f].pc = "applyGift"
    /\ FreeProcesses # {}
    /\ \E response \in {CartJsOk(cart), CartJsFailure, [CartJsOk(cart) EXCEPT !.token = Null]} :
        LET p == CHOOSE q \in FreeProcesses : \A r \in FreeProcesses : q <= r
        IN  /\ Spend(~response.ok \/ response.token = Null)
            /\ IF ~response.ok
               THEN applying' = caught(applying, f, "Failed to fetch cart") /\ inv' = inv
               ELSE IF response.token = Null
               THEN applying' = caught(applying, f, "Cart ID not found") /\ inv' = inv
               ELSE /\ applying' = [applying EXCEPT !.flows[f].pc = "posted",
                                                    !.flows[f].posted = TRUE,
                                                    !.flows[f].process = p]
                    /\ inv' \in {[inv EXCEPT ![p] = actionEntry(inv[p], GoodRequest.shopDomain,
                                                              CartIdBody(response.token[1]),
                                                              TRUE, TRUE, cart, invalidType)] :
                                    invalidType \in ZodInvalidType}
    /\ UNCHANGED <<store, cart, nextId, pricing, settings, page>>

(* applyGift, lines 332-349: the answer is read, the status shown unless   *)
(* silent, and the reload scheduled when the gift was applied or removed.  *)
applyGift_response(f) ==
    /\ applying.flows[f].pc = "posted"
    /\ inv[applying.flows[f].process].pc = "idle"
    /\ inv[applying.flows[f].process].response # Null
    /\ LET result == inv[applying.flows[f].process].response[1].body
           status == getStatusFromResult(result)
           answer == [applying EXCEPT !.flows[f].result = Some(result),
                                      !.flows[f].pc = IF reloads(result) THEN "reloading" ELSE "settled"]
       IN  applying' = IF applying.flows[f].silent THEN answer
                       ELSE show(answer, f, showStatus(status, result.reason))
    /\ UNCHANGED <<store, cart, nextId, inv, budget, pricing, settings, page>>

(* The timer of lines 280-286 fires on the status element of banner b and  *)
(* removes it, whatever applyGift is doing: also after location.reload()   *)
(* was called, while the page waits for its new document.                  *)
statusTimeout(b) ==
    /\ applying.statusElement[b] # Null
    /\ applying.statusElement[b][1].timer
    /\ applying' = [applying EXCEPT
                        !.statusElement[b] = Null,
                        !.flows = [f \in 1..Len(applying.flows) |->
                                      IF applying.flows[f].banner = b
                                      THEN [applying.flows[f] EXCEPT !.showing = FALSE]
                                      ELSE applying.flows[f]]]
    /\ UNCHANGED <<store, cart, nextId, inv, budget, pricing, settings, page>>

(* window.location.reload(), line 345: the page is left, with its timers   *)
(* and the calls that wait for an answer, and its document is loaded anew. *)
reload(f) ==
    /\ applying.flows[f].pc = "reloading"
    /\ applying.reloads < MaxReloads
    /\ page' = [IdlePage EXCEPT !.document = page.document, !.fetches = page.fetches]
    /\ applying' = [IdleApplying EXCEPT !.clicks = applying.clicks, !.reloads = applying.reloads + 1]
    /\ UNCHANGED <<store, cart, nextId, inv, budget, pricing, settings>>

(***************************************************************************)
(* Specifications                                                          *)
(***************************************************************************)
Init ==
    /\ store \in InitStores
    /\ cart \in InitCarts
    /\ nextId = Len(cart) + 1
    /\ inv = [p \in {1} |-> IdleInv]
    /\ budget = -1
    /\ pricing = IdlePricing
    /\ settings = IdleSettings
    /\ page = IdlePage
    /\ applying = IdleApplying

Next ==
    \E p \in DOMAIN inv :
        \/ action(p)
        \/ applyGiftLogic_getGiftRules(p)
        \/ applyGiftLogic_getCartData(p)
        \/ applyGiftLogic_removeGiftItems(p)
        \/ applyGiftLogic_updateGiftQuantity(p)
        \/ applyGiftLogic_addGiftItem(p)

Spec == Init /\ [][Next]_vars

(* Repeated invocations of which at most MaxFailures steps fail: requests  *)
(* keep coming (weak fairness of the steps) and, the failures spent, every *)
(* remote call succeeds.                                                   *)
LiveCarts == {c \in InitCarts : Len(c) < MaxLines}

InitLive ==
    /\ store \in InitStores
    /\ cart \in LiveCarts
    /\ nextId = Len(cart) + 1
    /\ inv = [p \in {1} |-> IdleInv]
    /\ budget = MaxFailures
    /\ pricing = IdlePricing
    /\ settings = IdleSettings
    /\ page = IdlePage
    /\ applying = IdleApplying

SpecLive == InitLive /\ [][Next]_vars /\ WF_vars(Next)

(* Two invocations for the same cart at once, as two banners on a page     *)
(* start them: the steps of the two interleave in any order and no remote  *)
(* call fails.                                                             *)
InitConcurrent ==
    /\ store \in InitStores
    /\ cart \in LiveCarts
    /\ nextId = Len(cart) + 1
    /\ inv = [p \in {1, 2} |-> IdleInv]
    /\ budget = 0
    /\ pricing = IdlePricing
    /\ settings = IdleSettings
    /\ page = IdlePage
    /\ applying = IdleApplying

SpecConcurrent == InitConcurrent /\ [][Next]_vars

(* Two invocations at once, one remote failure allowed: under an enabled   *)
(* rule with a minimum, on the carts that hold a line the shopper chose.   *)
InitInterleaved ==
    /\ store \in {s \in InitStores : s.enable_rule = "true" /\ s.min_cart_subtotal = Some(Text50)}
    /\ cart \in {c \in LiveCarts : \E i \in 1..Len(c) : ~isGiftItem(c[i])}
    /\ nextId = Len(cart) + 1
    /\ inv = [p \in {1, 2} |-> IdleInv]
    /\ budget = 1
    /\ pricing = IdlePricing
    /\ settings = IdleSettings
    /\ page = IdlePage
    /\ applying = IdleApplying

SpecInterleaved == InitInterleaved /\ [][Next]_vars

(* One banner on the page of a cart, without an apply button and without   *)
(* remote failures: the page loads, applies on load and reloads.           *)
InitReload ==
    /\ store \in InitStores
    /\ cart \in LiveCarts
    /\ nextId = Len(cart) + 1
    /\ inv = [p \in {1} |-> IdleInv]
    /\ budget = 0
    /\ pricing = IdlePricing
    /\ settings = IdleSettings
    /\ page \in {[IdlePage EXCEPT !.document = <<a>>] : a \in {b \in BannerAttributes : ~b.applyButton}}
    /\ applying = IdleApplying

NextReload ==
    \/ mount
    \/ \E k \in 1..Len(page.calls) : updateBanner_getCartState(k)
    \/ \E k \in 1..Len(page.calls) : updateBanner_render(k)
    \/ \E f \in 1..Len(applying.flows) : autoApplyOnLoad(f)
    \/ \E f \in 1..Len(applying.flows) : applyGift_post(f)
    \/ \E p \in DOMAIN inv :
            \/ applyGiftLogic_getGiftRules(p)
            \/ applyGiftLogic_getCartData(p)
            \/ applyGiftLogic_removeGiftItems(p)
            \/ applyGiftLogic_updateGiftQuantity(p)
            \/ applyGiftLogic_addGiftItem(p)
    \/ \E f \in 1..Len(applying.flows) : applyGift_response(f)
    \/ \E f \in 1..Len(applying.flows) : reload(f)

SpecReload == InitReload /\ [][NextReload]_vars

(* The banner with its apply button, clicked at any moment, in a shop      *)
(* whose rule has a minimum of 50 and on the carts of at most one line:    *)
(* two handler invocations at a time and one remote failure allowed.       *)
InitClick ==
    /\ store \in {st \in InitStores : st.min_cart_subtotal = Some(Text50)}
    /\ cart \in {c \in LiveCarts : Len(c) <= 1}
    /\ nextId = Len(cart) + 1
    /\ inv = [p \in {1, 2} |-> IdleInv]
    /\ budget = 1
    /\ pricing = IdlePricing
    /\ settings = IdleSettings
    /\ page \in {[IdlePage EXCEPT !.document = <<a>>] :
                    a \in {b \in BannerAttributes : b.applyButton /\ b.minSubtotal = Some(Text50)}}
    /\ applying = IdleApplying

NextClick ==
    \/ NextReload
    \/ \E b \in 1..Len(page.banners) : click(b)
    \/ \E b \in 1..Len(page.banners) : statusTimeout(b)

SpecClick == InitClick /\ [][NextClick]_vars

(* A page of a shop without a rule, on which the banners of the document   *)
(* are constructed and the theme fetches, in any order; a request to the   *)
(* endpoint is answered 'Gift rules not configured' after the read of the *)
(* rule, so no answer reloads the page. The page is loaded with an empty   *)
(* cart; its document holds banners with a minimum of 50, at most one of   *)
(* them with its rule on, whose minimum may be 75.1 or abc instead.        *)
InitPage ==
    /\ store = NeverConfigured
    /\ cart = <<>>
    /\ nextId = Len(cart) + 1
    /\ inv = [p \in {1} |-> IdleInv]
    /\ budget = 0
    /\ pricing = IdlePricing
    /\ settings = IdleSettings
    /\ LET attributes == {a \in BannerAttributes :
                              /\ ~a.applyButton
                              /\ \/ a.minSubtotal = Some(Text50)
                                 \/ /\ a.minSubtotal \in {Some(<<"7", "5", ".", "1">>), Some(<<"a", "b", "c">>)}
                                    /\ a.isRuleEnabled = Null}
           shown(document) == {b \in DOMAIN document : document[b].isRuleEnabled = Null}
       IN  page \in {[IdlePage EXCEPT !.document = document] :
                        document \in {d \in UNION {[1..n -> attributes] : n \in 0..MaxBanners} :
                                         Cardinality(shown(d)) <= 1}}
    /\ applying = IdleApplying

NextPage ==
    \/ mount
    \/ themeFetch
    \/ \E r \in 1..Len(page.requests) : wrapper_afterFetch(r)
    \/ \E r \in 1..Len(page.requests) : wrapper_afterJson(r)
    \/ \E k \in 1..Len(page.calls) : updateBanner_getCartState(k)
    \/ \E k \in 1..Len(page.calls) : updateBanner_render(k)
    \/ \E f \in 1..Len(applying.flows) : autoApplyOnLoad(f)
    \/ \E f \in 1..Len(applying.flows) : applyGift_post(f)
    \/ \E p \in DOMAIN inv : applyGiftLogic_getGiftRules(p)
    \/ \E f \in 1..Len(applying.flows) : applyGift_response(f)

SpecPage == InitPage /\ [][NextPage]_vars

(* Checkout at any moment of a cart's life: before, during or after a      *)
(* reconciliation without remote failures.                                 *)
InitCheckout ==
    /\ store \in InitStores
    /\ cart \in LiveCarts
    /\ nextId = Len(cart) + 1
    /\ inv = [p \in {1} |-> IdleInv]
    /\ budget = 0
    /\ pricing = IdlePricing
    /\ settings = IdleSettings
    /\ page = IdlePage
    /\ applying = IdleApplying

NextCheckout ==
    \/ Next
    \/ \E classes \in SUBSET {"PRODUCT", "ORDER", "SHIPPING"} : checkout(classes)

SpecCheckout == InitCheckout /\ [][NextCheckout]_vars

(* Checkout pricing passes: any input, the function run once on it.        *)
InitDiscount ==
    /\ store = NeverConfigured
    /\ cart = <<>>
    /\ nextId = 1
    /\ inv = [p \in {1} |-> IdleInv]
    /\ budget = -1
    /\ pricing \in {[input |-> Some(input), result |-> Null] : input \in CartInputs}
    /\ settings = IdleSettings
    /\ page = IdlePage
    /\ applying = IdleApplying

NextDiscount == \E input \in CartInputs : run(input)

SpecDiscount == InitDiscount /\ [][NextDiscount]_vars

(* Submissions of the settings form, from an installation whose rule was   *)
(* never saved.                                                            *)
InitSettings ==
    /\ store = NeverConfigured
    /\ cart = <<>>
    /\ nextId = 1
    /\ inv = [p \in {1} |-> IdleInv]
    /\ budget = -1
    /\ pricing = IdlePricing
    /\ settings = IdleSettings
    /\ page = IdlePage
    /\ applying = IdleApplying

NextSettings ==
    \E s \in DOMAIN settings.runs :
        \/ \E form \in Forms : giftRuleAction(s, form)
        \/ saveGiftRule_getCurrentAppInstallationId(s)
        \/ saveGiftRule_saveGiftRuleMetafields(s)
        \/ saveGiftRule_createAutomaticAppDiscount(s)

SpecSettings == InitSettings /\ [][NextSettings]_vars

(* Two sessions submit the settings form, and each Admin call is answered  *)
(* well: the calls of the two submissions interleave. The forms are the    *)
(* good one, one with another variant, no minimum and the rule off, and    *)
(* one with a negative minimum.                                            *)
InitSubmissions ==
    /\ store = NeverConfigured
    /\ cart = <<>>
    /\ nextId = 1
    /\ inv = [p \in {1} |-> IdleInv]
    /\ budget = 0
    /\ pricing = IdlePricing
    /\ settings = [IdleSettings EXCEPT !.runs = [s \in {1, 2} |-> IdleSubmission]]
    /\ page = IdlePage
    /\ applying = IdleApplying

NextSubmissions ==
    \E s \in DOMAIN settings.runs :
        \/ \E form \in {GoodForm,
                          [GoodForm EXCEPT !.giftVariantId = "V2", !.minCartSubtotal = <<"0">>,
                                           !.enableRule = ""],
                          [GoodForm EXCEPT !.minCartSubtotal = <<"-", "5">>]} :
                giftRuleAction(s, form)
        \/ saveGiftRule_getCurrentAppInstallationId(s)
        \/ saveGiftRule_saveGiftRuleMetafields(s)
        \/ saveGiftRule_createAutomaticAppDiscount(s)

SpecSubmissions == InitSubmissions /\ [][NextSubmissions]_vars

(***************************************************************************)
(* Vocabulary of the properties                                            *)
(***************************************************************************)
HasGiftFlag(line) == [key |-> "_is_gift", value |-> "true"] \in Range(line.attributes)

GiftLinesIn(c) == SelectSeq(c, HasGiftFlag)

RECURSIVE NonGiftTotal(_)
NonGiftTotal(c) ==
    IF c = <<>> THEN 0
    ELSE (IF HasGiftFlag(Head(c)) \/ Head(c).cost = Null THEN 0 ELSE Head(c).cost[1])
         + NonGiftTotal(Tail(c))

RuleConfigured == store.gift_variant_id # ""
RuleEnabled == RuleConfigured /\ store.enable_rule = "true"
RuleVariant == store.gift_variant_id
RuleMinimum == IF store.min_cart_subtotal = Some(Text50) THEN 50 ELSE 0

Eligible(c) == RuleEnabled /\ NonGiftTotal(c) >= RuleMinimum

(* The handler has answered a request that reached applyGiftLogic.         *)
Finished(p) == inv[p].pc = "idle" /\ inv[p].ran

(* ... and none of its remote calls failed.                                *)
FailureFree(p) == Finished(p) /\ \A i \in 1..Len(inv[p].calls) : inv[p].calls[i].success

MutationsOf(p) == SelectSeq(inv[p].calls, LAMBDA call : call.op \in Mutations)

TargetState(c) ==
    /\ Len(GiftLinesIn(c)) <= 1
    /\ \A i \in 1..Len(GiftLinesIn(c)) :
        GiftLinesIn(c)[i].merchandise = RuleVariant /\ GiftLinesIn(c)[i].quantity = 1

(***************************************************************************)
(* Properties                                                              *)
(***************************************************************************)

(* C1: after a failure-free invocation with the rule enabled the cart      *)
(* holds at most one gift line, and that line has the configured variant   *)
(* and quantity 1.                                                         *)
C1_AtMostOneGiftLine ==
    \A p \in DOMAIN inv : FailureFree(p) /\ RuleEnabled => TargetState(cart)

(* A cart that started with several gift lines, one of them with too high  *)
(* a quantity, has been reconciled.                                        *)
C1_Witness ==
    \E p \in DOMAIN inv :
        /\ FailureFree(p) /\ RuleEnabled
        /\ Len(GiftLinesIn(inv[p].cartBefore)) >= 2
        /\ \E i \in 1..Len(inv[p].cartBefore) :
            HasGiftFlag(inv[p].cartBefore[i]) /\ inv[p].cartBefore[i].quantity > 1
        /\ Len(GiftLinesIn(cart)) = 1

(* C2 as stated: after a failure-free invocation, for a rule enabled or    *)
(* disabled, the cart holds a gift line iff it is eligible.                *)
C2_GiftIffEligible_AnyRule ==
    \A p \in DOMAIN inv :
        FailureFree(p) /\ RuleConfigured =>
            (GiftLinesIn(cart) # <<>> <=> Eligible(inv[p].cartBefore))

(* C2 amended: with the rule enabled the cart holds a gift line iff the    *)
(* non-gift subtotal reaches the minimum; with the rule disabled the cart  *)
(* is left as it was.                                                      *)
C2_GiftIffEligible ==
    \A p \in DOMAIN inv :
        FailureFree(p) /\ RuleConfigured =>
            IF RuleEnabled
            THEN GiftLinesIn(cart) # <<>> <=> NonGiftTotal(inv[p].cartBefore) >= RuleMinimum
            ELSE cart = inv[p].cartBefore

(* An enabled rule met exactly at the boundary has produced a gift line,   *)
(* in a cart that had none.                                                *)
C2_Witness ==
    \E p \in DOMAIN inv :
        /\ FailureFree(p) /\ RuleEnabled /\ RuleMinimum > 0
        /\ NonGiftTotal(inv[p].cartBefore) = RuleMinimum
        /\ GiftLinesIn(inv[p].cartBefore) = <<>>
        /\ GiftLinesIn(cart) # <<>>

(* C3: an invocation that follows a failure-free one issues no mutation,   *)
(* leaves the cart unchanged and answers applied:false.                    *)
C3_Idempotent ==
    \A p \in DOMAIN inv :
        Finished(p) /\ inv[p].prev.clean =>
            /\ MutationsOf(p) = <<>>
            /\ cart = inv[p].cartBefore
            /\ inv[p].response[1].body.applied = FALSE

(* A second invocation has found the gift the first one left.              *)
C3_Witness ==
    \E p \in DOMAIN inv :
        /\ FailureFree(p) /\ inv[p].prev.clean /\ RuleEnabled
        /\ GiftLinesIn(cart) # <<>>
        /\ inv[p].result = Some(ApplyGiftResult(FALSE, Null,
                                Plain("Gift already added to cart with correct quantity")))

(* C4: below the minimum no gift line survives; removed is set iff there   *)
(* was a gift line before the call; applied is false.                      *)
C4_Demotion ==
    \A p \in DOMAIN inv :
        FailureFree(p) /\ RuleEnabled /\ NonGiftTotal(inv[p].cartBefore) < RuleMinimum =>
            /\ GiftLinesIn(cart) = <<>>
            /\ inv[p].result # Null
            /\ inv[p].result[1].applied = FALSE
            /\ inv[p].result[1].removed = Some(TRUE) <=> GiftLinesIn(inv[p].cartBefore) # <<>>
            /\ inv[p].result[1].removed \in {Null, Some(TRUE)}

(* Several gift lines, of both variants, have been stripped from a cart    *)
(* below the minimum.                                                      *)
C4_Witness ==
    \E p \in DOMAIN inv :
        /\ FailureFree(p) /\ RuleEnabled /\ NonGiftTotal(inv[p].cartBefore) < RuleMinimum
        /\ Len(GiftLinesIn(inv[p].cartBefore)) >= 2
        /\ \E i, j \in 1..Len(inv[p].cartBefore) :
            /\ HasGiftFlag(inv[p].cartBefore[i]) /\ HasGiftFlag(inv[p].cartBefore[j])
            /\ inv[p].cartBefore[i].merchandise # inv[p].cartBefore[j].merchandise
        /\ GiftLinesIn(cart) = <<>>
        /\ inv[p].result[1].removed = Some(TRUE)

(* C5: for an eligible cart without a gift line the only mutation is one   *)
(* cartLinesAdd of one line (configured variant, quantity 1, gift          *)
(* attribute); no remove or update is issued; with every call succeeding   *)
(* the add is issued and the result is applied:true, "Gift applied         *)
(* successfully". The boundary subtotal = minimum is eligible.             *)
C5_AddsTheGift ==
    \A p \in DOMAIN inv :
        Finished(p) /\ Eligible(inv[p].cartBefore) /\ GiftLinesIn(inv[p].cartBefore) = <<>> =>
            /\ Len(MutationsOf(p)) <= 1
            /\ \A i \in 1..Len(MutationsOf(p)) :
                /\ MutationsOf(p)[i].op = "cartLinesAdd"
                /\ MutationsOf(p)[i].lines =
                       <<[quantity |-> 1, merchandiseId |-> RuleVariant,
                          attributes |-> <<[key |-> "_is_gift", value |-> "true"]>>]>>
            /\ FailureFree(p) =>
                /\ Len(MutationsOf(p)) = 1
                /\ inv[p].result = Some(ApplyGiftResult(TRUE, Null, Plain("Gift applied successfully")))

(* The gift has been added to a cart exactly at a positive minimum.        *)
C5_Witness ==
    \E p \in DOMAIN inv :
        /\ FailureFree(p) /\ RuleEnabled /\ RuleMinimum > 0
        /\ NonGiftTotal(inv[p].cartBefore) = RuleMinimum
        /\ GiftLinesIn(inv[p].cartBefore) = <<>>
        /\ Len(MutationsOf(p)) = 1
        /\ inv[p].result[1].applied
        /\ Len(cart) = Len(inv[p].cartBefore) + 1

FirstCorrectGift(c) ==
    SelectSeq(c, LAMBDA line : HasGiftFlag(line) /\ line.merchandise = RuleVariant)[1]

(* C6: for an eligible cart with two or more gift lines a failure-free     *)
(* invocation leaves exactly one gift line, of the configured variant and  *)
(* quantity 1; if some original gift line had the configured variant the   *)
(* survivor is the first of them and every other gift line is gone.        *)
C6_OneSurvivor ==
    \A p \in DOMAIN inv :
        FailureFree(p) /\ Eligible(inv[p].cartBefore) /\ Len(GiftLinesIn(inv[p].cartBefore)) >= 2 =>
            /\ Len(GiftLinesIn(cart)) = 1
            /\ GiftLinesIn(cart)[1].merchandise = RuleVariant
            /\ GiftLinesIn(cart)[1].quantity = 1
            /\ (\E i \in 1..Len(inv[p].cartBefore) :
                    /\ HasGiftFlag(inv[p].cartBefore[i])
                    /\ inv[p].cartBefore[i].merchandise = RuleVariant)
               => /\ GiftLinesIn(cart)[1].id = FirstCorrectGift(inv[p].cartBefore).id
                  /\ \A i \in 1..Len(inv[p].cartBefore) :
                        /\ HasGiftFlag(inv[p].cartBefore[i])
                        /\ inv[p].cartBefore[i].id # FirstCorrectGift(inv[p].cartBefore).id
                        => \A k \in 1..Len(cart) : cart[k].id # inv[p].cartBefore[i].id

(* A wrong gift line came first and two lines of the configured variant    *)
(* followed: the first of these two survives.                              *)
C6_Witness ==
    \E p \in DOMAIN inv :
        /\ FailureFree(p) /\ Eligible(inv[p].cartBefore)
        /\ Len(GiftLinesIn(inv[p].cartBefore)) = 3
        /\ GiftLinesIn(inv[p].cartBefore)[1].merchandise # RuleVariant
        /\ GiftLinesIn(inv[p].cartBefore)[2].merchandise = RuleVariant
        /\ GiftLinesIn(inv[p].cartBefore)[3].merchandise = RuleVariant
        /\ Len(GiftLinesIn(cart)) = 1
        /\ GiftLinesIn(cart)[1].id = GiftLinesIn(inv[p].cartBefore)[2].id

StorefrontCalls == {"getCart"} \cup Mutations

(* C7: a failed Storefront call is the last call of its invocation; the    *)
(* answer is applied:false with the reason of that failure; and the lines  *)
(* removed earlier in the invocation stay removed.                         *)
C7_ShortCircuit ==
    \A p \in DOMAIN inv :
        /\ \A i \in 1..Len(inv[p].calls) :
            inv[p].calls[i].op \in StorefrontCalls /\ ~inv[p].calls[i].success =>
                /\ i = Len(inv[p].calls)
                /\ inv[p].pc = "idle"
                /\ inv[p].response # Null
                /\ inv[p].response[1].body.applied = FALSE
                /\ inv[p].response[1].body.reason = inv[p].calls[i].reason
        /\ \A j \in 1..Len(inv[p].calls) :
            inv[p].calls[j].op = "cartLinesRemove" /\ inv[p].calls[j].success =>
                \A k \in 1..Len(cart) : cart[k].id \notin Range(inv[p].calls[j].lineIds)

(* The removal of the wrong gift succeeded and the add failed: the cart is *)
(* left without a gift.                                                    *)
C7_Witness ==
    \E p \in DOMAIN inv :
        /\ Finished(p)
        /\ Len(MutationsOf(p)) = 2
        /\ MutationsOf(p)[1].op = "cartLinesRemove" /\ MutationsOf(p)[1].success
        /\ MutationsOf(p)[2].op = "cartLinesAdd" /\ ~MutationsOf(p)[2].success
        /\ GiftLinesIn(inv[p].cartBefore) # <<>>
        /\ GiftLinesIn(cart) = <<>>
        /\ inv[p].response[1].body.reason = Plain("Invalid line")

(* The cart is what the enabled rule asks for.                             *)
Reconciled ==
    /\ TargetState(cart)
    /\ GiftLinesIn(cart) # <<>> <=> NonGiftTotal(cart) >= RuleMinimum

(* A failure-free invocation that follows an aborted one reconciles.       *)
HealedInOne ==
    \A p \in DOMAIN inv :
        FailureFree(p) /\ inv[p].prev.ran /\ ~inv[p].prev.clean /\ RuleEnabled => Reconciled

(* Every answered invocation issued no mutation and said applied:false,    *)
(* and the cart of an enabled rule is reconciled.                          *)
Settled ==
    /\ \A p \in DOMAIN inv :
        Finished(p) => MutationsOf(p) = <<>> /\ inv[p].response[1].body.applied = FALSE
    /\ RuleEnabled => Reconciled

(* C8: with the rule enabled, one failure-free invocation after an aborted *)
(* one reconciles the cart; and once the remote calls succeed, repeated    *)
(* invocations reach, and never leave, the states where every invocation   *)
(* issues no mutation and answers applied:false, failure-free invocations  *)
(* completing again and again.                                             *)
C8_SelfHealing ==
    /\ []HealedInOne
    /\ <>[]Settled
    /\ []<>(\E p \in DOMAIN inv : FailureFree(p))

(* The earlier invocation removed the wrong gift and then failed; the      *)
(* later one, failure-free, added the gift.                                *)
C8_Witness ==
    \E p \in DOMAIN inv :
        /\ FailureFree(p) /\ RuleEnabled
        /\ inv[p].prev.partial
        /\ GiftLinesIn(inv[p].cartBefore) = <<>>
        /\ Len(MutationsOf(p)) = 1 /\ MutationsOf(p)[1].op = "cartLinesAdd"
        /\ Reconciled

(* C9: whenever a remote call of an invocation (the Admin read of the      *)
(* rule, the cart read or a mutation) reported a GraphQL error or a user   *)
(* error with a message, the answer is applied:false with that message as  *)
(* its reason.                                                             *)
C9_ErrorsPropagated ==
    \A p \in DOMAIN inv :
        Finished(p) =>
            \A i \in 1..Len(inv[p].calls) :
                inv[p].calls[i].error # Null /\ inv[p].calls[i].error # Some("") =>
                    /\ inv[p].response[1].body.applied = FALSE
                    /\ inv[p].response[1].body.reason = Plain(inv[p].calls[i].error[1])

(* An exception reached the catch of the handler: the body was not JSON or *)
(* a Storefront call threw.                                                *)
ExceptionCaught(p) ==
    \/ inv[p].request[1].body.json = Null
    \/ \E i \in 1..Len(inv[p].calls) :
        inv[p].calls[i].op \in StorefrontCalls /\ inv[p].calls[i].threw

InvalidRequest(p) ==
    \/ inv[p].request[1].shopDomain = Null
    \/ /\ inv[p].request[1].body.json # Null
       /\ inv[p].request[1].body.json[1].cartId \in {Null, Some("")}

ClientUnavailable(p) == ~inv[p].request[1].storefront \/ ~inv[p].request[1].admin

(* C10: every answer carries applied and reason; its status is 200 exactly *)
(* when there is a reconciliation result with applied or removed set, 400  *)
(* for any other reconciliation result and for an invalid request, 503     *)
(* when a client is unavailable, 500 when an exception reached the         *)
(* handler.                                                                *)
C10_HttpStatus ==
    \A p \in DOMAIN inv :
        inv[p].response # Null =>
            LET status == inv[p].response[1].status
                body == inv[p].response[1].body
                result == inv[p].result
            IN  /\ {"applied", "reason"} \subseteq DOMAIN body
                /\ body.applied \in BOOLEAN
                /\ body.reason.text # ""
                /\ status = 200 <=> (result # Null /\ (result[1].applied \/ result[1].removed = Some(TRUE)))
                /\ result # Null => body = result[1] /\ status \in {200, 400}
                /\ InvalidRequest(p) => status = 400
                /\ ClientUnavailable(p) => status = 503
                /\ ExceptionCaught(p) => status = 500
                /\ status \in {200, 400, 500, 503}
                /\ status = 503 => ClientUnavailable(p)
                /\ status = 500 => ExceptionCaught(p)

(* A removal below the minimum is answered 200 although applied is false.  *)
C10_Witness ==
    \E p \in DOMAIN inv :
        /\ inv[p].response # Null
        /\ inv[p].response[1].status = 200
        /\ inv[p].response[1].body.applied = FALSE
        /\ inv[p].response[1].body.removed = Some(TRUE)

(***************************************************************************)
(* The discount function's contract                                        *)
(***************************************************************************)
Priced == pricing.result # Null
PricedInput == pricing.input[1]
PricedLines == PricedInput.cart.lines
Operations == pricing.result[1].operations

(* Positions of the input lines whose _is_gift attribute is "true".        *)
Flagged == {i \in 1..Len(PricedLines) : PricedLines[i].isGift = Some([value |-> "true"])}
ProductActive == "PRODUCT" \in PricedInput.discount.discountClasses

(* The line ids the candidates of an operation target, with repetition.    *)
TargetsOf(operation) ==
    LET candidates == operation.productDiscountsAdd.candidates
    IN  [i \in 1..Len(candidates) |-> candidates[i].targets[1].cartLine.id]

(* C11: with no lines, or without the Product class among the discount     *)
(* classes, or without a line whose gift flag is "true", the function      *)
(* returns no operations, whatever the other inputs are.                   *)
C11_EmptyOperations ==
    Priced =>
        ((PricedLines = <<>> \/ ~ProductActive \/ Flagged = {}) => Operations = <<>>)

(* Gift-flagged lines priced under a discount of other classes only.       *)
C11_Witness ==
    /\ Priced
    /\ Flagged # {}
    /\ ~ProductActive
    /\ PricedInput.discount.discountClasses # {}
    /\ Operations = <<>>

(* C12: with k >= 1 flagged lines and the Product class active there is    *)
(* exactly one operation, of k candidates, each of 100 percent and of one  *)
(* target; the targets are the flagged lines' ids, each once, and no other *)
(* line is targeted.                                                       *)
C12_OneCandidatePerGift ==
    (Priced /\ Flagged # {} /\ ProductActive) =>
        /\ Len(Operations) = 1
        /\ LET candidates == Operations[1].productDiscountsAdd.candidates
               targets == TargetsOf(Operations[1])
           IN  /\ Len(candidates) = Cardinality(Flagged)
               /\ \A i \in 1..Len(candidates) :
                    /\ candidates[i].value.percentage.value = 100
                    /\ Len(candidates[i].targets) = 1
               /\ Range(targets) = {PricedLines[i].id : i \in Flagged}
               /\ \A i, j \in 1..Len(targets) : targets[i] = targets[j] => i = j

(* Two flagged lines among lines without the flag and with another value.  *)
C12_Witness ==
    /\ Priced
    /\ ProductActive
    /\ Cardinality(Flagged) = 2
    /\ \E i \in 1..Len(PricedLines) : PricedLines[i].isGift = Some([value |-> "false"])
    /\ Len(Operations) = 1
    /\ Len(Operations[1].productDiscountsAdd.candidates) = 2

(***************************************************************************)
(* The settings page's contract                                            *)
(***************************************************************************)
Sessions == DOMAIN settings.runs
Returned(s) == settings.runs[s].pc = "idle" /\ settings.runs[s].result # Null
FormOf(s) == settings.runs[s].form[1]
ResultOf(s) == settings.runs[s].result[1]
Issued(s, op) == op \in Range(settings.runs[s].calls)

(* C13: the automatic discount is registered once: however many saves      *)
(* succeed, discountAutomaticAppCreate is issued at most once in total.    *)
C13_RegisteredOnce == settings.registrations <= 1

(* The form passed validation and its shop was known: saveGiftRule ran.    *)
SaveRan(s) == Returned(s) /\ Issued(s, "currentAppInstallation")
IdObtained(s) == settings.runs[s].answers.installation[1].id # Null
WriteSucceeded(s) ==
    /\ Issued(s, "metafieldsSet")
    /\ store = prepareGiftRuleMetafields(
                   [giftVariantId |-> FormOf(s).giftVariantId,
                    minCartSubtotal |-> FormOf(s).minCartSubtotal,
                    enableRule |-> FormOf(s).enableRule \in {"on", "true"}])
    /\ ~settings.runs[s].answers.metafieldsSet[1].threw
    /\ settings.runs[s].answers.metafieldsSet[1].metafields # Null

(* C14: a save that returns answers success:true exactly when the          *)
(* installation id was obtained and the metafields were written, whatever  *)
(* became of the discount registration; without the id no write is issued  *)
(* and the store stays; when the write fails the registration is not       *)
(* attempted and success is false.                                         *)
C14_SaveResult ==
    \A s \in Sessions :
        (SaveRan(s) /\ ResultOf(s).threw = Null) =>
            /\ ResultOf(s).success <=> (IdObtained(s) /\ WriteSucceeded(s))
            /\ ~IdObtained(s) => (~Issued(s, "metafieldsSet") /\ store = settings.runs[s].before[1])
            /\ (IdObtained(s) /\ ~WriteSucceeded(s)) =>
                  /\ Issued(s, "metafieldsSet")
                  /\ ~Issued(s, "discountAutomaticAppCreate")
                  /\ ~ResultOf(s).success
                  /\ store = settings.runs[s].before[1]

(* The rule the reconciler reads from the store as it is.                  *)
RuleRead == getGiftRules(AdminOk(store))

(* C15: over any sequence of submissions, one that fails validation (gift  *)
(* variant empty; minimum subtotal empty, not a number or negative) issues *)
(* no call and leaves the store as it was; and a rule read from the store  *)
(* has a gift variant, a minimum of at least zero, and is enabled exactly  *)
(* when the form last saved had enableRule "on" or "true".                 *)
C15_ValidatedRules ==
    /\ \A s \in Sessions :
        (Returned(s) /\ (\/ FormOf(s).giftVariantId = ""
                         \/ FormOf(s).minCartSubtotal \in NotNumberTexts \cup {<<"-", "5">>})) =>
            /\ ~ResultOf(s).success
            /\ settings.runs[s].calls = <<>>
            /\ store = settings.runs[s].before[1]
    /\ RuleRead # Null =>
            /\ settings.saved # Null
            /\ RuleRead[1].giftVariantId # ""
            /\ atLeast(RuleRead[1].minCartSubtotal, Whole[0])
            /\ RuleRead[1].enableRule <=> settings.saved[1].enableRule \in {"on", "true"}

(* A negative minimum submitted after a save of "5a" with the rule         *)
(* disabled: the store keeps the saved rule, read as a minimum of 5.       *)
C15_Witness ==
    \E s \in Sessions :
        /\ Returned(s)
        /\ FormOf(s).minCartSubtotal = <<"-", "5">>
        /\ settings.saved # Null
        /\ store.min_cart_subtotal = Some(<<"5", "a">>)
        /\ RuleRead # Null
        /\ RuleRead[1].minCartSubtotal = Whole[5]
        /\ store = settings.runs[s].before[1]

(***************************************************************************)
(* The reconciler's paths                                                  *)
(***************************************************************************)
HasCorrectGift(c) == \E i \in 1..Len(c) : HasGiftFlag(c[i]) /\ c[i].merchandise = RuleVariant
CallsOf(p, op) == SelectSeq(inv[p].calls, LAMBDA call : call.op = op)

(* C16: for an eligible cart whose gift line of the configured variant     *)
(* (the first, when there are several) has a quantity above 1, a           *)
(* failure-free invocation issues one update of that line to quantity 1,   *)
(* issues no add, removes that line in no removal, leaves it in the cart   *)
(* with quantity 1 and answers applied:true, "Gift quantity updated to 1". *)
C16_QuantityUpdate ==
    \A p \in DOMAIN inv :
        (/\ FailureFree(p) /\ Eligible(inv[p].cartBefore)
         /\ HasCorrectGift(inv[p].cartBefore)
         /\ FirstCorrectGift(inv[p].cartBefore).quantity > 1) =>
            LET gift == FirstCorrectGift(inv[p].cartBefore)
            IN  /\ Len(CallsOf(p, "cartLinesUpdate")) = 1
                /\ CallsOf(p, "cartLinesUpdate")[1].lines = <<[id |-> gift.id, quantity |-> 1]>>
                /\ CallsOf(p, "cartLinesAdd") = <<>>
                /\ \A i \in 1..Len(CallsOf(p, "cartLinesRemove")) :
                        gift.id \notin Range(CallsOf(p, "cartLinesRemove")[i].lineIds)
                /\ \E k \in 1..Len(cart) :
                        /\ cart[k].id = gift.id /\ cart[k].quantity = 1
                        /\ cart[k].merchandise = gift.merchandise /\ HasGiftFlag(cart[k])
                /\ Len(cart) <= Len(inv[p].cartBefore)
                /\ inv[p].result = Some(ApplyGiftResult(TRUE, Null, Plain("Gift quantity updated to 1")))

(* A gift line of quantity 2 has been set to 1 after another gift line     *)
(* was removed.                                                            *)
C16_Witness ==
    \E p \in DOMAIN inv :
        /\ FailureFree(p) /\ Eligible(inv[p].cartBefore)
        /\ HasCorrectGift(inv[p].cartBefore)
        /\ FirstCorrectGift(inv[p].cartBefore).quantity = 2
        /\ Len(GiftLinesIn(inv[p].cartBefore)) = 2
        /\ Len(CallsOf(p, "cartLinesUpdate")) = 1
        /\ Len(GiftLinesIn(cart)) = 1
        /\ GiftLinesIn(cart)[1].id = FirstCorrectGift(inv[p].cartBefore).id
        /\ GiftLinesIn(cart)[1].quantity = 1
        /\ inv[p].result[1].applied

(* C17: with the rule absent or disabled an invocation issues no           *)
(* Storefront call, neither the cart read nor a mutation, leaves the cart  *)
(* as it was whatever gift lines it holds, and answers applied:false       *)
(* without removed.                                                        *)
C17_NoOp ==
    \A p \in DOMAIN inv :
        (inv[p].ran /\ ~RuleEnabled) =>
            /\ \A i \in 1..Len(inv[p].calls) : inv[p].calls[i].op \notin StorefrontCalls
            /\ cart = inv[p].cartBefore
            /\ Finished(p) =>
                /\ inv[p].response[1].body.applied = FALSE
                /\ inv[p].response[1].body.removed = Null

(* A disabled rule and a cart that holds gift lines of a wrong quantity.   *)
C17_Witness ==
    \E p \in DOMAIN inv :
        /\ FailureFree(p)
        /\ RuleConfigured /\ ~RuleEnabled
        /\ Len(GiftLinesIn(cart)) >= 2
        /\ \E i \in 1..Len(cart) : HasGiftFlag(cart[i]) /\ cart[i].quantity > 1
        /\ inv[p].result = Some(ApplyGiftResult(FALSE, Null, Plain("Gift rule is disabled")))

EligibleReasons ==
    {Plain("Gift already added to cart with correct quantity"),
     Plain("Gift quantity updated to 1"),
     Plain("Gift applied successfully")}

WithoutGifts(c) == SelectSeq(c, LAMBDA line : ~HasGiftFlag(line))

(* C18: the subtotal that decides eligibility is the sum of the amounts of *)
(* the lines that are not gift lines, a line without amount counting 0:    *)
(* it is the subtotal of the cart with its gift lines taken out, the       *)
(* reason of an ineligible cart reports it, and an invocation takes the    *)
(* ineligible path exactly when it is below the minimum.                   *)
C18_SubtotalExcludesGifts ==
    \A p \in DOMAIN inv :
        (FailureFree(p) /\ RuleEnabled) =>
            LET before == inv[p].cartBefore
            IN  /\ calculateSubtotalWithoutGifts(before) = NonGiftTotal(before)
                /\ calculateSubtotalWithoutGifts(before) = calculateSubtotalWithoutGifts(WithoutGifts(before))
                /\ NonGiftTotal(before) < RuleMinimum =>
                        inv[p].result[1].reason \in
                            {BelowMinimum(NonGiftTotal(before), Whole[RuleMinimum]),
                             BelowMinimumRemoved(NonGiftTotal(before), Whole[RuleMinimum])}
                /\ NonGiftTotal(before) >= RuleMinimum => inv[p].result[1].reason \in EligibleReasons

(* A gift line whose amount would lift the cart to the minimum, beside a   *)
(* line that carries the gift key with another value and counts.           *)
C18_Witness ==
    \E p \in DOMAIN inv :
        /\ FailureFree(p) /\ RuleEnabled
        /\ NonGiftTotal(inv[p].cartBefore) = 25
        /\ RuleMinimum = 50
        /\ \E i \in 1..Len(inv[p].cartBefore) :
                HasGiftFlag(inv[p].cartBefore[i]) /\ inv[p].cartBefore[i].cost = Some(50)
        /\ \E i \in 1..Len(inv[p].cartBefore) :
                inv[p].cartBefore[i].attributes = <<[key |-> GIFT_ATTRIBUTE_KEY, value |-> "false"]>>
        /\ inv[p].result = Some(ApplyGiftResult(FALSE, Some(TRUE), BelowMinimumRemoved(25, Whole[50])))

(* C19: in an invocation a removal is the first mutation; there are at     *)
(* most two mutations and never both an add and a quantity update; below   *)
(* the minimum there is at most one mutation, a removal that carries the   *)
(* ids of all gift lines.                                                  *)
C19_MutationOrder ==
    \A p \in DOMAIN inv :
        /\ \A i \in 1..Len(MutationsOf(p)) : MutationsOf(p)[i].op = "cartLinesRemove" => i = 1
        /\ Len(MutationsOf(p)) <= 2
        /\ CallsOf(p, "cartLinesAdd") = <<>> \/ CallsOf(p, "cartLinesUpdate") = <<>>
        /\ (inv[p].ran /\ RuleEnabled /\ NonGiftTotal(inv[p].cartBefore) < RuleMinimum) =>
                /\ Len(MutationsOf(p)) <= 1
                /\ \A i \in 1..Len(MutationsOf(p)) :
                    /\ MutationsOf(p)[i].op = "cartLinesRemove"
                    /\ MutationsOf(p)[i].lineIds =
                          [k \in 1..Len(GiftLinesIn(inv[p].cartBefore)) |-> GiftLinesIn(inv[p].cartBefore)[k].id]

(* Two mutations: a removal of a wrong gift line, then the update of the   *)
(* right one.                                                              *)
C19_Witness ==
    \E p \in DOMAIN inv :
        /\ Finished(p)
        /\ Len(MutationsOf(p)) = 2
        /\ MutationsOf(p)[1].op = "cartLinesRemove" /\ MutationsOf(p)[1].success
        /\ MutationsOf(p)[2].op = "cartLinesUpdate" /\ MutationsOf(p)[2].success

(***************************************************************************)
(* Concurrent invocations                                                  *)
(***************************************************************************)

(* C20: when two invocations for the same cart have run at once, their     *)
(* remote calls interleaved in any order, and both have completed without  *)
(* a failure, the cart holds at most one gift line, of the configured      *)
(* variant and of quantity 1.                                              *)
C20_ConcurrentTarget ==
    (RuleEnabled /\ \A p \in DOMAIN inv : FailureFree(p)) => TargetState(cart)

(***************************************************************************)
(* Rejected requests                                                       *)
(***************************************************************************)

(* C21: a request without the shop parameter, or whose cartId is missing   *)
(* or empty, is answered in one step with status 400 and applied false;    *)
(* the invocation has made no Admin or Storefront call and never entered   *)
(* applyGiftLogic, and the step leaves the rule store and the cart as they *)
(* were.                                                                   *)
C21_InvalidRequestRejected ==
    [][\A p \in DOMAIN inv :
        (inv[p].pc = "idle" /\ inv'[p] # inv[p] /\ InvalidRequest(p)') =>
            /\ inv'[p].pc = "idle"
            /\ inv'[p].response # Null
            /\ inv'[p].response[1].status = 400
            /\ inv'[p].response[1].body.applied = FALSE
            /\ inv'[p].calls = <<>>
            /\ ~inv'[p].ran
            /\ inv'[p].result = Null
            /\ store' = store
            /\ cart' = cart]_vars

(* A request with an empty cart id was answered 400 for a cart that holds  *)
(* lines and a configured, enabled rule.                                   *)
C21_Witness ==
    \E p \in DOMAIN inv :
        /\ inv[p].request # Null
        /\ inv[p].request[1].body = CartIdBody("")
        /\ inv[p].response # Null
        /\ inv[p].response[1].status = 400
        /\ inv[p].response[1].body = ApplyGiftResult(FALSE, Null, Plain("Cart ID is required"))
        /\ RuleEnabled
        /\ cart # <<>>

(***************************************************************************)
(* The frame of reconciliation                                             *)
(***************************************************************************)
NonGiftIds(c) == {c[i].id : i \in {k \in 1..Len(c) : ~HasGiftFlag(c[k])}}

MutationTargetsGiftOnly(c, call) ==
    /\ call.op = "cartLinesRemove" => Range(call.lineIds) \cap NonGiftIds(c) = {}
    /\ call.op = "cartLinesUpdate" =>
            \A i \in 1..Len(call.lines) : call.lines[i].id \notin NonGiftIds(c)
    /\ call.op = "cartLinesAdd" =>
            \A i \in 1..Len(call.lines) :
                [key |-> GIFT_ATTRIBUTE_KEY, value |-> GIFT_ATTRIBUTE_VALUE] \in Range(call.lines[i].attributes)

(* C26: in every step of every invocation, aborted and interleaved ones    *)
(* included, the mutations sent so far target no line without the gift     *)
(* flag (a removal and a quantity update carry no id of such a line, an    *)
(* add sends only gift-flagged lines), and the step leaves the lines       *)
(* without the gift flag, in their order and with their quantities, and    *)
(* the non-gift subtotal as they were.                                     *)
C26_Frame ==
    [][/\ \A p \in DOMAIN inv :
            \A i \in 1..Len(inv'[p].calls) :
                MutationTargetsGiftOnly(cart, inv'[p].calls[i])
       /\ WithoutGifts(cart') = WithoutGifts(cart)
       /\ NonGiftTotal(cart') = NonGiftTotal(cart)]_vars

(* Two invocations on a cart with a line the shopper chose: one was        *)
(* aborted by a call that threw, the other removed a gift line and added   *)
(* the gift, and the shopper's line is in the cart.                        *)
C26_Witness ==
    \E p, q \in DOMAIN inv :
        /\ p # q
        /\ Finished(p) /\ Finished(q)
        /\ \E i \in 1..Len(inv[p].calls) : inv[p].calls[i].op \in Mutations /\ inv[p].calls[i].threw
        /\ \E i \in 1..Len(inv[q].calls) : inv[q].calls[i].op = "cartLinesRemove" /\ inv[q].calls[i].success
        /\ \E i \in 1..Len(inv[q].calls) : inv[q].calls[i].op = "cartLinesAdd" /\ inv[q].calls[i].success
        /\ WithoutGifts(cart) # <<>>
        /\ WithoutGifts(cart) = WithoutGifts(inv[q].cartBefore)

(***************************************************************************)
(* What the result tells about the cart                                    *)
(***************************************************************************)

(* C27: when an invocation has returned a result, a mutation of it having  *)
(* succeeded implies applied or removed is set in the result, and a result *)
(* with applied false and removed unset implies the cart is the cart the   *)
(* invocation found.                                                       *)
C27_ResultTellsChange ==
    \A p \in DOMAIN inv :
        (Finished(p) /\ inv[p].result # Null) =>
            /\ (\E i \in 1..Len(MutationsOf(p)) : MutationsOf(p)[i].success) =>
                    (inv[p].result[1].applied \/ inv[p].result[1].removed = Some(TRUE))
            /\ (~inv[p].result[1].applied /\ inv[p].result[1].removed # Some(TRUE)) =>
                    cart = inv[p].cartBefore

(***************************************************************************)
(* The discount at checkout                                                *)
(***************************************************************************)
(* The line of the cart the reconciler would keep as the gift.             *)
KeptGift(c, line) ==
    /\ RuleEnabled
    /\ NonGiftTotal(c) >= RuleMinimum
    /\ line.merchandise = RuleVariant
    /\ line.quantity = 1

(* C28: when checkout prices the cart, every line a candidate of the       *)
(* result targets is a line of the configured variant with quantity 1 in   *)
(* a cart whose non-gift subtotal reaches the minimum of an enabled rule.  *)
C28_DiscountOnlyKeptGift ==
    [][pricing' # pricing =>
        \A o \in 1..Len(pricing'.result[1].operations) :
            \A t \in Range(TargetsOf(pricing'.result[1].operations[o])) :
                \A k \in 1..Len(cart) : cart[k].id = t => KeptGift(cart, cart[k])]_vars

(***************************************************************************)
(* The banner's auto-apply and reload cycle                                *)
(***************************************************************************)
(* autoApplyOnLoad has returned on the page now loaded.                    *)
Flows == 1..Len(applying.flows)
AutoApplyReturned(f) ==
    applying.flows[f].auto /\ applying.flows[f].pc \in {"skipped", "settled", "reloading"}

(* C24: once the autoApplyOnLoad of a banner whose rule is not switched    *)
(* off has returned, the banner has posted one request with the cart id to *)
(* the endpoint, whatever cart the page loaded with, above or below the    *)
(* threshold.                                                              *)
C24_AutoApplyAttempt ==
    \A f \in Flows :
        (AutoApplyReturned(f) /\ page.banners[applying.flows[f].banner].isRuleEnabled) =>
            applying.flows[f].posted

(* C29: with one banner, no remote failure and no cart change from         *)
(* outside, the page is reloaded at most once.                             *)
C29_AtMostOneReload ==
    applying.reloads <= 1

(* The page was reloaded once, the auto-apply of the reloaded page was     *)
(* answered applied:false without removed, and the page stays.             *)
C29_Witness ==
    /\ applying.reloads = 1
    /\ \E f \in Flows :
        /\ applying.flows[f].auto
        /\ applying.flows[f].pc = "settled"
        /\ applying.flows[f].posted
        /\ applying.flows[f].result =
                Some(ApplyGiftResult(FALSE, Null, Plain("Gift already added to cart with correct quantity")))
    /\ TargetState(cart)

(***************************************************************************)
(* The status the banner shows                                             *)
(***************************************************************************)
AlreadyCorrectReason == Plain("Gift already added to cart with correct quantity")
BelowMinimumTexts == {BelowMinimum(0, 0).text, BelowMinimumRemoved(0, 0).text}

(* The request of a click has been answered and its status shown.          *)
StatusShown(f) == applying.flows[f].result # Null /\ ~applying.flows[f].silent
LastShown(f) == applying.flows[f].shown[Len(applying.flows[f].shown)]

(* C25: the status shown for an answer is 'applied' when applied is true;  *)
(* otherwise 'already exists' for the reason of an already correct cart,   *)
(* 'not eligible' for the two reasons of a cart below the minimum, and     *)
(* 'error' for any other reason the endpoint answered with; the status     *)
(* element on screen has its removal timer set exactly when its status is  *)
(* not 'error'.                                                            *)
C25_StatusOfResult ==
    /\ \A f \in Flows :
        StatusShown(f) =>
            LET result == applying.flows[f].result[1]
            IN  /\ result.applied => LastShown(f) = "applied"
                /\ (~result.applied /\ result.reason = AlreadyCorrectReason) =>
                        LastShown(f) = "already exists"
                /\ (~result.applied /\ result.reason.text \in BelowMinimumTexts) =>
                        LastShown(f) = "not eligible"
                /\ (/\ ~result.applied
                    /\ result.reason # AlreadyCorrectReason
                    /\ result.reason.text \notin BelowMinimumTexts) => LastShown(f) = "error"
    /\ \A b \in 1..Len(applying.statusElement) :
        applying.statusElement[b] # Null =>
            (applying.statusElement[b][1].timer <=> applying.statusElement[b][1].status # "error")

(* After a click the gift lines of a cart below the minimum were removed:  *)
(* the banner shows 'not eligible', to be dismissed, and will reload.      *)
C25_Witness ==
    \E f \in Flows :
        /\ StatusShown(f)
        /\ applying.flows[f].result[1].removed = Some(TRUE)
        /\ applying.flows[f].result[1].reason.text = BelowMinimumRemoved(0, 0).text
        /\ applying.statusElement[applying.flows[f].banner] =
                Some(showStatus("not eligible", Null))
        /\ applying.flows[f].pc = "reloading"

(***************************************************************************)
(* The patch of fetch and the banner's rendering                           *)
(***************************************************************************)
(* A response the theme got from a cart endpoint under /cart/, ok and with *)
(* a JSON body.                                                            *)
CartResponse(response) ==
    /\ response.url \in {"/cart/change.js", "/cart/add.js", "/cart/update.js"}
    /\ response.ok
    /\ response.contentType = "application/json; charset=utf-8"

(* C22: fetch is wrapped exactly once as soon as a banner is mounted,      *)
(* however many are; when the wrapper returns a response of the theme, it  *)
(* has called updateBanner once on every banner of the document when it is *)
(* a cart response whose token differs from the last token seen, which it  *)
(* then becomes, and on none otherwise.                                    *)
C22_PatchedOnce ==
    [][/\ Len(page'.wrappers) = (IF page'.banners = <<>> THEN 0 ELSE 1)
       /\ page'.patched <=> page'.banners # <<>>
       /\ \A r \in 1..Len(page.requests) :
            page'.requests = SubSeq(page.requests, 1, r - 1) \o SubSeq(page.requests, r + 1, Len(page.requests)) =>
                LET response == page.requests[r].response
                    token == Some(tokenOf(response.body))
                    differs == CartResponse(response) /\ token # page.wrappers[1].lastCartToken
                IN  /\ \A b \in 1..Len(page.banners) :
                            page'.banners[b].updateCalls =
                                page.banners[b].updateCalls + (IF differs THEN 1 ELSE 0)
                    /\ page'.wrappers[1].lastCartToken =
                            (IF differs THEN token ELSE page.wrappers[1].lastCartToken)]_vars

(* Two banners are mounted, fetch is wrapped once, and the wrapper has     *)
(* returned a cart response with a new token, the token of a cart, that    *)
(* has called updateBanner a second time on both.                          *)
C22_Witness ==
    /\ Len(page.banners) = 2
    /\ Len(page.wrappers) = 1
    /\ page.fetches = 1
    /\ page.requests = <<>>
    /\ page.wrappers[1].lastCartToken = Some(tokenOf(CartJson(cart)))
    /\ \A b \in 1..Len(page.banners) : page.banners[b].updateCalls = 2

StateOf(entry) == [isEligible |-> entry.isEligible, remainingCents |-> entry.remainingCents]

(* C23: every state a banner rendered was derived from the cart total read *)
(* as isEligible = total >= threshold and remainingCents = max(0,          *)
(* threshold - total), which is no number when the threshold is none,      *)
(* differs from the state rendered before it, and is the banner's          *)
(* lastState while nothing else is rendered; a banner whose rule is off    *)
(* has rendered nothing and is hidden.                                     *)
C23_RenderOnChange ==
    \A b \in 1..Len(page.banners) :
        LET instance == page.banners[b]
            threshold == instance.minSubtotalCents
        IN  /\ ~instance.isRuleEnabled => instance.rendered = <<>> /\ instance.display = "none"
            /\ \A i \in 1..Len(instance.rendered) :
                    /\ instance.rendered[i].isEligible <=>
                            atLeast(Whole[instance.rendered[i].totalPrice], threshold)
                    /\ instance.rendered[i].remainingCents =
                            (IF isNaN(threshold) THEN NaN
                             ELSE IF lessThan(Whole[instance.rendered[i].totalPrice], threshold)
                             THEN Minus[threshold, instance.rendered[i].totalPrice] ELSE Whole[0])
                    /\ i > 1 => StateOf(instance.rendered[i]) # StateOf(instance.rendered[i - 1])
            /\ instance.lastState =
                    (IF instance.rendered = <<>> THEN Null
                     ELSE Some(StateOf(instance.rendered[Len(instance.rendered)])))

(* C30: when no updateBanner call of a banner is in flight any more, the   *)
(* banner's lastState and what it renders are the state derived from the   *)
(* cart that was read last.                                                *)
C30_LatestCartRendered ==
    \A b \in 1..Len(page.banners) :
        (/\ page.banners[b].isRuleEnabled
         /\ page.banners[b].latestRead # Null
         /\ \A k \in 1..Len(page.calls) : page.calls[k].banner # b) =>
            /\ page.banners[b].lastState =
                    Some(calculateState(page.banners[b], page.banners[b].latestRead[1]))
            /\ page.banners[b].rendered # <<>>
            /\ page.banners[b].rendered[Len(page.banners[b].rendered)].totalPrice =
                    page.banners[b].latestRead[1]

====
